---- MODULE Spec2Model ----
(***************************************************************************)
(* Side-by-side rendering core of delta: the line wrapper (wrap_line), the *)
(* block wrapper (wrap_minusplus_block) and the panel padder               *)
(* (pad_panel_line_to_width).                                              *)
(*                                                                         *)
(* A text is a sequence of graphemes (one-character strings); a style      *)
(* segment is the pair <<style, text>>; a line is a sequence of segments;  *)
(* Option<T> is <<>> (None) or <<x>> (Some(x)).                            *)
(***************************************************************************)
EXTENDS Integers, Sequences, FiniteSets, TLC

VARIABLES
    \* the position in the function being run, and config.wrap_config
    pc, wrap_config,
    \* wrap_line: its arguments and its locals
    line, line_width, fill_style, inline_hint_style, stack, curr_line, result,
    \* wrap_minusplus_block: its arguments (block_in), the entry of the
    \* alignment the loop is at, and its locals
    block_in, entry_index,
    new_alignment, new_states, new_wrapped_syntax, new_wrapped_diff,
    m_expected, p_expected,
    \* the painting of one panel of a row: the arguments and the configuration
    \* (paint_in) and the locals of pad_panel_line_to_width
    paint_in, panel_line, panel_line_is_empty, text_width,
    \* the emitters paint_minus_and_plus_lines_side_by_side and
    \* paint_zero_lines_side_by_side: the arguments (emit_in), what
    \* wrap_zero_block returned (zero_block), the row the loop is at, the
    \* counters of the line numbers data, the output buffer, and the calls of
    \* the painter made so far
    emit_in, zero_block, row_index, line_number, output_buffer, painter_calls,
    \* new_sbs with sbs_odd_fix, and has_long_lines: arguments and locals
    call_in, call_out

wrap_vars == <<line, line_width, fill_style, inline_hint_style, stack, curr_line, result>>
block_vars == <<block_in, entry_index, new_alignment, new_states, new_wrapped_syntax,
                new_wrapped_diff, m_expected, p_expected>>
paint_vars == <<paint_in, panel_line, panel_line_is_empty, text_width>>
emit_vars == <<emit_in, zero_block, row_index, line_number, output_buffer, painter_calls>>
call_vars == <<call_in, call_out>>
vars == <<pc, wrap_config, wrap_vars, block_vars, paint_vars, emit_vars, call_vars>>

\* ------------------------------------------------------------------ bounds
\* Longest input line, in graphemes, not counting a trailing newline.
MaxLen == 7
\* Most segments of an input line, not counting a newline segment.
MaxSegs == 2
\* Widest content width handed to wrap_line.
MaxWidth == 5
\* Largest wrap_config.max_lines (0 is unlimited).
MaxCap == 3
\* Most entries of the alignment handed to wrap_minusplus_block.
MaxAlign == 2
\* Widest panel, and most graphemes of a painted row after its marker.
MaxPanelWidth == 5
MaxContent == 5
MaxDeclaredWidth == 9
MaxTerminalWidth == 9
MaxLines == 2
\* Most alignment entries of a hunk that is wrapped and then painted.
MaxHunkEntries == 1

\* --------------------------------------------------------------- constants
INLINE_SYMBOL_WIDTH_1 == 1
\* Length of the SPACES string the padding segments point into.
SPACES_LEN == 64

LINEPREFIX == <<"_">>
NL == "\n"

\* Styles are opaque: the default style, the styles of the input segments,
\* the fill style and the inline-hint style.
DefaultStyle == "SD"
InputStyles == <<"S1", "S2">>
FillStyle == "SF"
HintStyle == "SH"

\* The wrap symbols of the tests' configuration (W, WR, RA).
LeftSymbol == <<"+">>
RightSymbol == <<"<">>
RightPrefixSymbol == <<">">>

\* Values of use_wrap_right_permille: 0.1% (never right-align) and 37%.
PermilleValues == {1, 370}

\* The text of the input lines: a "-" prefix followed by distinct graphemes.
INPUT_TEXT == <<"-", "0", "1", "2", "3", "4", "5", "6", "7", "8", "9", "a", "b", "c", "d", "e", "f", "Z">>

\* ----------------------------------------------------------------- helpers
Min(a, b) == IF a < b THEN a ELSE b
Max(a, b) == IF a > b THEN a ELSE b

Last(s) == s[Len(s)]
Front(s) == SubSeq(s, 1, Len(s) - 1)
Reverse(s) == [i \in 1..Len(s) |-> s[Len(s) + 1 - i]]

RECURSIVE Flatten(_)
Flatten(ss) == IF ss = <<>> THEN <<>> ELSE Head(ss) \o Flatten(Tail(ss))

RECURSIVE SumSeq(_)
SumSeq(s) == IF s = <<>> THEN 0 ELSE Head(s) + SumSeq(Tail(s))

Repeat(x, n) == [i \in 1..n |-> x]

\* Grapheme count of a text, and of a line.
GraphemeCount(text) == Len(text)
LineGraphemes(segs) == Flatten([i \in 1..Len(segs) |-> segs[i][2]])

\* The graphemes of a line, each with the style of its segment.
StyledGraphemes(segs) ==
    Flatten([i \in 1..Len(segs) |-> [j \in 1..Len(segs[i][2]) |-> <<segs[i][1], segs[i][2][j]>>]])

EndsWithNewline(text) == text # <<>> /\ Last(text) = NL

\* ------------------------------------------------------ wrap_line, by parts
\* max_len = line_width + LINEPREFIX.len()
MaxLenOf(lw) == lw + Len(LINEPREFIX)

\* Style of an inserted symbol.
SymbolStyle_Fill(fill, hint) == fill

SymbolStyle(fill, hint) == IF hint # <<>> THEN hint[1] ELSE fill

\* Faulty variant of CurrLine::reset: the new line starts without LINEPREFIX.
CurrLineReset_NoPrefix == [line_segments |-> <<>>, len |-> 0]

\* CurrLine::reset()
CurrLineReset == [line_segments |-> <<<<DefaultStyle, LINEPREFIX>>>>, len |-> Len(LINEPREFIX)]

\* The current line before the first push.
CurrLineInit == [line_segments |-> <<>>, len |-> 0]

\* CurrLine::push_and_set_len
PushAndSetLen(cl, seg, len) == [line_segments |-> Append(cl.line_segments, seg), len |-> len]

\* CurrLine::has_text
HasText(cl) == cl.len > Len(LINEPREFIX)

\* CurrLine::text_len
TextLen(cl) == IF cl.len > Len(LINEPREFIX) THEN cl.len - Len(LINEPREFIX) ELSE 0

\* Faulty variant: the cap compared without the row still being assembled.
LineLimitReached_OffByOne(res, lw, cfg) ==
    LET max_lines == IF lw <= INLINE_SYMBOL_WIDTH_1 THEN 1 ELSE cfg.max_lines
    IN  max_lines > 0 /\ Len(res) >= max_lines

\* The closure line_limit_reached.
LineLimitReached(res, lw, cfg) ==
    LET max_lines == IF lw <= INLINE_SYMBOL_WIDTH_1 THEN 1 ELSE cfg.max_lines
    IN  max_lines > 0 /\ Len(res) + 1 >= max_lines

\* The condition of the while loop.
LoopCond(st, lw, cfg) ==
    /\ st.stack # <<>>
    /\ ~LineLimitReached(st.result, lw, cfg)
    /\ MaxLenOf(lw) > Len(LINEPREFIX)

\* The must_split decision for the popped segment `seg`, `rest` being the
\* stack after the pop: "push", "push_nl" (the segment and the single "\n"
\* left on the stack), "push_free_nl" (the overhanging "\n" is not counted)
\* or "split".
SplitDecision(cl, seg, rest, max_len) ==
    LET new_len == cl.len + GraphemeCount(seg[2])
    IN  IF new_len < max_len THEN "push"
        ELSE IF new_len = max_len THEN
            IF rest = <<>> THEN "push"
            ELSE IF Len(rest) = 1 /\ Last(rest)[2] = <<NL>> THEN "push_nl"
            ELSE "split"
        ELSE IF new_len = max_len + 1 /\ rest = <<>> THEN
            IF EndsWithNewline(seg[2]) THEN "push_free_nl" ELSE "split"
        ELSE "split"

\* Faulty variant of grapheme_split_pos: no room is left for the wrap symbol.
GraphemeSplitPos_NoRoom(cl, seg, max_len) ==
    GraphemeCount(seg[2]) - ((cl.len + GraphemeCount(seg[2])) - max_len)

\* grapheme_split_pos; negative where the usize subtraction underflows.
GraphemeSplitPos(cl, seg, max_len) ==
    GraphemeCount(seg[2]) - ((cl.len + GraphemeCount(seg[2])) - max_len) - 1

\* One pass of the while loop on st = [stack, curr_line, result, panic].
\* The top of the stack is its last element. An underflow of
\* grapheme_split_pos, or an index past the graphemes, panics.
LoopBody(st, lw, fill, hint, cfg) ==
    LET max_len == MaxLenOf(lw)
        seg == Last(st.stack)
        rest == Front(st.stack)
        style == seg[1]
        text == seg[2]
        cl == st.curr_line
        new_len == cl.len + GraphemeCount(text)
        decision == SplitDecision(cl, seg, rest, max_len)
        pos == GraphemeSplitPos(cl, seg, max_len)
    IN  CASE decision = "push" ->
                [st EXCEPT !.stack = rest,
                           !.curr_line = PushAndSetLen(cl, seg, new_len)]
          [] decision = "push_nl" ->
                [st EXCEPT !.stack = Front(rest),
                           !.curr_line = PushAndSetLen(PushAndSetLen(cl, seg, new_len),
                                                       Last(rest), new_len + 0)]
          [] decision = "push_free_nl" ->
                [st EXCEPT !.stack = rest,
                           !.curr_line = PushAndSetLen(cl, seg, new_len - 1)]
          [] OTHER ->
                IF pos < 0 \/ (pos # 0 /\ pos >= GraphemeCount(text))
                THEN [st EXCEPT !.stack = rest, !.panic = TRUE]
                ELSE LET this_line == SubSeq(text, 1, pos)
                         next_line == SubSeq(text, pos + 1, Len(text))
                         line_segments ==
                             IF pos = 0 THEN cl.line_segments
                             ELSE Append(cl.line_segments, <<style, this_line>>)
                     IN  [st EXCEPT
                             !.stack = Append(rest, <<style, next_line>>),
                             !.result = Append(st.result,
                                 Append(line_segments,
                                        <<SymbolStyle(fill, hint), cfg.left_symbol>>)),
                             !.curr_line = CurrLineReset]

\* Faulty variant of the padding: the spaces carry the default style.
PadSegments_DefaultStyle(pad_len, fill) ==
    Repeat(<<DefaultStyle, Repeat(" ", SPACES_LEN)>>, pad_len \div SPACES_LEN)
    \o (IF pad_len % SPACES_LEN = 0 THEN <<>>
        ELSE <<<<DefaultStyle, Repeat(" ", pad_len % SPACES_LEN)>>>>)

\* The padding segments of a right-aligned line: whole SPACES strings, then
\* the rest.
PadSegments(pad_len, fill) ==
    Repeat(<<fill, Repeat(" ", SPACES_LEN)>>, pad_len \div SPACES_LEN)
    \o (IF pad_len % SPACES_LEN = 0 THEN <<>>
        ELSE <<<<fill, Repeat(" ", pad_len % SPACES_LEN)>>>>)

\* Faulty variant: the column of the right-prefix symbol is not taken off.
PadLen_NoSymbol(cl, max_len) == Max(0, max_len - TextLen(cl))

\* pad_len of the right-align step (saturating_sub).
PadLen(cl, max_len) == Max(0, max_len - (TextLen(cl) + INLINE_SYMBOL_WIDTH_1))

\* The condition under which the second line is right-aligned.
RightAlignCond(st, lw, cfg) ==
    /\ Len(st.result) = 1
    /\ HasText(st.curr_line)
    /\ cfg.use_wrap_right_permille > (TextLen(st.curr_line) * 1000) \div MaxLenOf(lw)
    /\ PadLen(st.curr_line, MaxLenOf(lw)) > INLINE_SYMBOL_WIDTH_1

\* vec.last_mut().unwrap().1 = &wrap_config.right_symbol
MarkRightAligned(row, cfg) == [row EXCEPT ![Len(row)] = <<row[Len(row)][1], cfg.right_symbol>>]

\* The right-align step after the loop.
RightAlign(st, lw, fill, hint, cfg) ==
    IF ~RightAlignCond(st, lw, cfg) THEN st
    ELSE LET marked == MarkRightAligned(st.result[Len(st.result)], cfg)
             right_aligned_line ==
                 <<<<DefaultStyle, LINEPREFIX>>>>
                 \o PadSegments(PadLen(st.curr_line, MaxLenOf(lw)), fill)
                 \o <<<<SymbolStyle(fill, hint), cfg.right_prefix_symbol>>>>
                 \o Tail(st.curr_line.line_segments)
         IN  [st EXCEPT !.result[Len(st.result)] = marked,
                        !.curr_line.line_segments = right_aligned_line]

\* Faulty variant: the current line joins the result even when it is empty.
PushCurrLine_Always(st) ==
    [st EXCEPT !.result = Append(st.result, st.curr_line.line_segments)]

\* if curr_line.len > 0 { result.push(curr_line.line_segments) }
PushCurrLine(st) ==
    IF st.curr_line.len > 0
    THEN [st EXCEPT !.result = Append(st.result, st.curr_line.line_segments)]
    ELSE st

\* Faulty variant: the stack is appended as it is, top first.
AppendLeftover_NotReversed(st) ==
    IF st.stack = <<>> THEN st
    ELSE LET res == IF st.result = <<>> THEN <<<<>>>> ELSE st.result
         IN  [st EXCEPT !.result = [res EXCEPT ![Len(res)] = res[Len(res)] \o st.stack]]

\* Anything left on the stack is added to the last line.
AppendLeftover(st) ==
    IF st.stack = <<>> THEN st
    ELSE LET res == IF st.result = <<>> THEN <<<<>>>> ELSE st.result
         IN  [st EXCEPT !.result = [res EXCEPT ![Len(res)] = res[Len(res)] \o Reverse(st.stack)]]

\* The state of wrap_line before the loop.
WrapStart(line_) ==
    [stack |-> Reverse(line_), curr_line |-> CurrLineInit, result |-> <<>>, panic |-> FALSE]

\* The loop, pass after pass. An intermediate value is bound as the one
\* element of a set, here and below, so that it is computed once however
\* often what follows uses it.
RECURSIVE WrapLoop(_, _, _, _, _)
WrapLoop(st, lw, fill, hint, cfg) ==
    IF st.panic \/ ~LoopCond(st, lw, cfg) THEN st
    ELSE CHOOSE r \in {WrapLoop(next, lw, fill, hint, cfg) :
                           next \in {LoopBody(st, lw, fill, hint, cfg)}} : TRUE

\* wrap_line: the state it returns from; .result holds the physical rows,
\* .panic tells that the code panicked instead.
wrap_line(cfg, line_, lw, fill, hint) ==
    LET AfterLoop(looped) ==
            IF looped.panic THEN looped
            ELSE AppendLeftover(PushCurrLine(RightAlign(looped, lw, fill, hint, cfg)))
    IN  CHOOSE r \in {AfterLoop(looped) :
                          looped \in {WrapLoop(WrapStart(line_), lw, fill, hint, cfg)}} : TRUE

\* ------------------------------------------- wrap_minusplus_block, by parts
\* MinusPlus<T>: a record indexed by the side, Left = minus, Right = plus.
Left == "minus"
Right == "plus"
MinusPlus(m, p) == [minus |-> m, plus |-> p]

None == <<>>
Some(x) == <<x>>

\* The styles the block wrapper takes from the configuration.
NullSyntectStyle == "NULL_SYNTECT"
InlineHintSyntectStyle == "HINT_SYNTECT"
InlineHintStyle == "HINT"
DefaultSyntectStyle == "DEFAULT_SYNTECT"
NullStyleHighlighted == "NULL_HL"
ConfigFillStyle == MinusPlus("MINUS_STYLE", "PLUS_STYLE")

\* Faulty variant: the line is wrapped whatever the mask says.
WrapIfTooLong_Always(cfg, wrapped, input_vec, must_wrap, lw, fill, hint) ==
    LET rows == wrap_line(cfg, input_vec, lw, fill, hint).result
    IN  [wrapped |-> wrapped \o rows, start |-> Len(wrapped),
         extended_to |-> Len(wrapped) + Len(rows), panic |-> ""]

\* wrap_if_too_long: the rows appended to `wrapped` and the range
\* (size_prev, wrapped.len()) they take, or a panic of wrap_line.
WrapIfTooLong(cfg, wrapped, input_vec, must_wrap, lw, fill, hint) ==
    LET Extend(wrapped_line) ==
            LET rows == IF must_wrap THEN wrapped_line.result ELSE <<input_vec>>
            IN  IF must_wrap /\ wrapped_line.panic
                THEN [wrapped |-> wrapped, start |-> Len(wrapped),
                      extended_to |-> Len(wrapped), panic |-> "wrap_line"]
                ELSE [wrapped |-> wrapped \o rows, start |-> Len(wrapped),
                      extended_to |-> Len(wrapped) + Len(rows), panic |-> ""]
    IN  CHOOSE r \in {Extend(wrapped_line) :
                          wrapped_line \in {wrap_line(cfg, input_vec, lw, fill, hint)}} : TRUE

\* wrap_syntax_and_diff for the next line of `side`: `consumed` lines of the
\* side were taken from the iterators before. b is the state of the block
\* wrapper, inp its arguments.
WrapSyntaxAndDiff(b, inp, side, errhint) ==
    LET n == IF side = Left THEN b.m_expected ELSE b.p_expected
        consumed == n - 1
    IN  IF consumed >= Len(inp.wrapinfo[side])
        THEN [b EXCEPT !.panic = "bad wrap info " \o errhint]
        ELSE IF consumed >= Len(inp.syntax[side])
        THEN [b EXCEPT !.panic = "bad syntax alignment " \o errhint]
        ELSE LET must_wrap == inp.wrapinfo[side][consumed + 1]
                 inline_hint_style_ == IF inp.inline_hint_background
                                       THEN Some(InlineHintStyle) ELSE None
                 WithSyntax(syn) ==
                     IF syn.panic # "" THEN [b EXCEPT !.panic = syn.panic]
                     ELSE IF consumed >= Len(inp.diff[side])
                     THEN [b EXCEPT !.panic = "bad diff alignment " \o errhint]
                     ELSE LET WithDiff(dif) ==
                                  IF dif.panic # "" THEN [b EXCEPT !.panic = dif.panic]
                                  ELSE IF <<syn.start, syn.extended_to>>
                                              # <<dif.start, dif.extended_to>>
                                  THEN [b EXCEPT !.panic =
                                           "syntax and diff wrapping differs " \o errhint]
                                  ELSE [b EXCEPT !.new_wrapped_syntax[side] = syn.wrapped,
                                                 !.new_wrapped_diff[side] = dif.wrapped,
                                                 !.start = syn.start,
                                                 !.extended_to = syn.extended_to]
                          IN  CHOOSE r \in {WithDiff(dif) : dif \in
                                  {WrapIfTooLong(inp.wrap_config, b.new_wrapped_diff[side],
                                                 inp.diff[side][consumed + 1], must_wrap,
                                                 inp.line_width[side], ConfigFillStyle[side],
                                                 inline_hint_style_)}} : TRUE
             IN  CHOOSE r \in {WithSyntax(syn) : syn \in
                     {WrapIfTooLong(inp.wrap_config, b.new_wrapped_syntax[side],
                                    inp.syntax[side][consumed + 1], must_wrap,
                                    inp.line_width[side], NullSyntectStyle,
                                    Some(InlineHintSyntectStyle))}} : TRUE

\* Faulty variant: the index of the entry is not compared with the counter.
WrapAndAssert_Unchecked(b, inp, side, errhint, have) ==
    LET expected == IF side = Left THEN b.m_expected ELSE b.p_expected
    IN  WrapSyntaxAndDiff(IF side = Left THEN [b EXCEPT !.m_expected = expected + 1]
                          ELSE [b EXCEPT !.p_expected = expected + 1],
                          inp, side, errhint)

\* The macro wrap_and_assert: the index check, the count, then the wrapping.
WrapAndAssert(b, inp, side, errhint, have) ==
    LET expected == IF side = Left THEN b.m_expected ELSE b.p_expected
    IN  IF have # expected
        THEN [b EXCEPT !.panic = "bad alignment index " \o errhint]
        ELSE LET Wrap(counted) == WrapSyntaxAndDiff(counted, inp, side, errhint)
             IN  CHOOSE r \in {Wrap(counted) : counted \in
                     {IF side = Left THEN [b EXCEPT !.m_expected = expected + 1]
                      ELSE [b EXCEPT !.p_expected = expected + 1]}} : TRUE

\* Faulty variant: the rows of the line are numbered from 0.
SideEntries_FromZero(side, from, to) ==
    [k \in 1..(to - from) |->
        IF side = Left THEN <<Some(k - 1), None>> ELSE <<None, Some(k - 1)>>]

\* Entries (Some(i), None) for i in from..to-1, or (None, Some(i)) on the right.
SideEntries(side, from, to) ==
    [k \in 1..(to - from) |->
        IF side = Left THEN <<Some(from + k - 1), None>> ELSE <<None, Some(from + k - 1)>>]

\* The states of the rows of one logical line.
RowStates_AllFirst(first, wrapped, extended) ==
    Repeat(first, extended)

\* Faulty variant: the first row is labelled as a continuation too.
RowStates_AllWrapped(first, wrapped, extended) ==
    Repeat(wrapped, extended)

RowStates(first, wrapped, extended) ==
    IF extended > 0 THEN <<first>> \o Repeat(wrapped, extended - 1) ELSE <<>>

\* Faulty variant: the rows of the two sides are paired from their last rows.
ZippedEntries_FromEnd(minus_start, m_extended_to, plus_start, p_extended_to) ==
    LET n == Min(m_extended_to - minus_start, p_extended_to - plus_start)
    IN  [k \in 1..n |-> <<Some(m_extended_to - n + k - 1), Some(p_extended_to - n + k - 1)>>]

\* The entries for the rows the two sides of a pair have in common.
ZippedEntries(minus_start, m_extended_to, plus_start, p_extended_to) ==
    [k \in 1..Min(m_extended_to - minus_start, p_extended_to - plus_start) |->
        <<Some(minus_start + k - 1), Some(plus_start + k - 1)>>]

\* The entries that fill up the shorter side of a pair with None.
FillEntries_Dropped(plus_minus, m_extended_to, p_extended_to) ==
    <<>>

FillEntries(plus_minus, m_extended_to, p_extended_to) ==
    IF plus_minus > 0
    THEN SideEntries(Left, m_extended_to - plus_minus, m_extended_to)
    ELSE IF plus_minus < 0
    THEN SideEntries(Right, p_extended_to + plus_minus, p_extended_to)
    ELSE <<>>

\* The states pushed at the end of a pass of the alignment loop.
PushStates(b, minus_extended, plus_extended) ==
    [b EXCEPT !.new_states =
        MinusPlus(b.new_states[Left] \o RowStates("HunkMinus", "HunkMinusWrapped", minus_extended),
                  b.new_states[Right] \o RowStates("HunkPlus", "HunkPlusWrapped", plus_extended))]

\* The arm (Some(m), None) or (None, Some(p)) of the match.
BlockOneSide(b, inp, side, errhint, have) ==
    LET Push(w) ==
            LET extended == w.extended_to - w.start
            IN  IF w.panic # "" THEN w
                ELSE PushStates(
                         [w EXCEPT !.new_alignment =
                             @ \o SideEntries(side, w.start, w.extended_to)],
                         IF side = Left THEN extended ELSE 0,
                         IF side = Left THEN 0 ELSE extended)
    IN  CHOOSE r \in {Push(w) : w \in {WrapAndAssert(b, inp, side, errhint, have)}} : TRUE

\* The arm (Some(m), Some(p)): both lines are wrapped, their rows zipped and
\* the shorter side filled up with None.
BlockBothSides(b, inp, m, p) ==
    LET WithMinus(wm) ==
            IF wm.panic # "" THEN wm
            ELSE LET WithPlus(wp) ==
                    LET minus_start == wm.start
                        m_extended_to == wm.extended_to
                        plus_start == wp.start
                        p_extended_to == wp.extended_to
                        minus_extended == m_extended_to - minus_start
                        plus_extended == p_extended_to - plus_start
                        plus_minus == minus_extended - plus_extended
                        zipped == ZippedEntries(minus_start, m_extended_to,
                                                plus_start, p_extended_to)
                        fill == FillEntries(plus_minus, m_extended_to, p_extended_to)
                    IN  IF wp.panic # "" THEN wp
                        ELSE PushStates([wp EXCEPT !.new_alignment = @ \o zipped \o fill],
                                        minus_extended, plus_extended)
                 IN  CHOOSE r \in {WithPlus(wp) :
                                       wp \in {WrapAndAssert(wm, inp, Right, "(l) [*r*]", p)}} : TRUE
    IN  CHOOSE r \in {WithMinus(wm) :
                          wm \in {WrapAndAssert(b, inp, Left, "[*l*] (r)", m)}} : TRUE

\* One pass of the loop over the alignment, for the entry (minus, plus).
BlockPass(b, inp, entry) ==
    LET minus == entry[1]
        plus == entry[2]
    IN  CASE minus # None /\ plus = None -> BlockOneSide(b, inp, Left, "[*l*] (-)", minus[1])
          [] minus = None /\ plus # None -> BlockOneSide(b, inp, Right, "(-) [*r*]", plus[1])
          [] minus # None /\ plus # None -> BlockBothSides(b, inp, minus[1], plus[1])
          [] OTHER -> [b EXCEPT !.panic = "None-None alignment"]

\* The state of wrap_minusplus_block before the loop.
BlockStart ==
    [new_alignment |-> <<>>,
     new_states |-> MinusPlus(<<>>, <<>>),
     new_wrapped_syntax |-> MinusPlus(<<>>, <<>>),
     new_wrapped_diff |-> MinusPlus(<<>>, <<>>),
     m_expected |-> 0, p_expected |-> 0,
     start |-> 0, extended_to |-> 0, panic |-> ""]

\* ------------------------------------------------- painted strings (ansi)
\* A painted string is a sequence of <<style, grapheme>>; an escape sequence
\* is an entry of the style Escape, which takes no column.
Escape == "ESC"
IsVisible(token) == token[1] # Escape

\* Style::paint(text)
PaintText(style, text) == [i \in 1..Len(text) |-> <<style, text[i]>>]

\* ansi::strip_ansi_codes: the graphemes left without the escapes.
StripAnsiCodes(s) ==
    LET visible == SelectSeq(s, IsVisible)
    IN  [i \in 1..Len(visible) |-> visible[i][2]]

\* ansi::measure_text_width
MeasureTextWidth(s) == Len(StripAnsiCodes(s))

\* The shortest prefix of s that holds n visible graphemes (all of s if it
\* holds fewer).
RECURSIVE TakeVisible(_, _)
TakeVisible(s, n) ==
    IF s = <<>> \/ n = 0 THEN <<>>
    ELSE <<s[1]>> \o TakeVisible(Tail(s), IF IsVisible(s[1]) THEN n - 1 ELSE n)

\* ansi::truncate_str: s cut to `width` columns, the truncation symbol last,
\* in the style in force where s is cut.
TruncateStr(s, width, truncation_symbol) ==
    IF MeasureTextWidth(s) <= width THEN s
    ELSE LET kept == TakeVisible(s, width - Len(truncation_symbol))
         IN  kept \o PaintText(s[Len(kept) + 1][1], truncation_symbol)

\* Painter::mark_empty_line with the marker Some(" ")
MarkEmptyLine(empty_line_style, s) == s \o PaintText(empty_line_style, <<" ">>)

\* Painter::right_fill_background_color: the escape that fills to the end
\* of the row.
RightFillBackgroundColor(s, style) == Append(s, <<Escape, style>>)

\* The styles that have a background color.
BackgroundStyles == {"S2"}

\* Painter::get_should_right_fill_background_color_and_fill_style: the fill
\* method handed in, for a row whose final segment has a background color.
GetShouldRightFill(diff_sections, state, bg_should_fill, config) ==
    IF bg_should_fill # None /\ diff_sections # <<>>
       /\ Last(diff_sections)[1] \in BackgroundStyles
    THEN <<bg_should_fill, Last(diff_sections)[1]>>
    ELSE <<None, config.null_style>>

\* Painter::paint_line: the line-number field of the side, the painted
\* prefix, then the sections without their marker and their newline; and
\* whether nothing follows the prefix.
PaintLine(diff_sections, state, panel_side, painted_prefix, config) ==
    LET styled == StyledGraphemes(diff_sections)
        unmarked == IF styled = <<>> THEN <<>> ELSE Tail(styled)
        content == IF unmarked # <<>> /\ Last(unmarked)[2] = NL THEN Front(unmarked)
                   ELSE unmarked
    IN  [line |-> PaintText(state, Repeat("#", config.line_numbers_width[panel_side]))
                      \o painted_prefix \o content,
         is_empty |-> content = <<>>,
         panic |-> FALSE]

\* ------------------------------------------------------- side_by_side.rs
\* The state a blank panel is painted with.
OppositeState(state) ==
    CASE state = "HunkMinus" -> "HunkPlus"
      [] state = "HunkPlus" -> "HunkMinus"
      [] OTHER -> "unreachable"

PaintedPrefix(config, panel_side, state) ==
    CASE ~config.keep_plus_minus_markers -> <<>>
      [] state = "HunkPlusWrapped" -> PaintText(config.plus_style, <<" ">>)
      [] state = "HunkMinusWrapped" -> PaintText(config.minus_style, <<" ">>)
      [] panel_side = Left -> PaintText(config.minus_style, <<"-">>)
      [] OTHER -> PaintText(config.plus_style, <<"+">>)

\* paint_minus_or_plus_panel_line: the line and whether it is empty, or the
\* panic of a blank panel in a state that has no opposite.
PaintMinusOrPlusPanelLine(line_index, diff_style_sections, state, panel_side, config) ==
    LET line_diff_sections ==
            IF line_index # None THEN diff_style_sections[line_index[1] + 1] ELSE <<>>
        state_for_line_numbers_field ==
            IF line_index # None THEN state ELSE OppositeState(state)
    IN  IF state_for_line_numbers_field = "unreachable"
        THEN [line |-> <<>>, is_empty |-> TRUE, panic |-> TRUE]
        ELSE PaintLine(line_diff_sections, state_for_line_numbers_field, panel_side,
                       PaintedPrefix(config, panel_side, state), config)

\* The fill method of the left panel, whatever the policy says.
NoneOrOverride_None(panel_side) == None

NoneOrOverride(panel_side) == IF panel_side = Left THEN Some("Spaces") ELSE None

\* get_right_fill_style_for_panel: <<bg_fill_mode, fill_style>>
GetRightFillStyleForPanel_Spaces(line_is_empty, line_index, diff_style_sections, state, panel_side, bg_should_fill, config) ==
    <<Some("Spaces"), config.null_style>>

GetRightFillStyleForPanel(line_is_empty, line_index, diff_style_sections, state, panel_side, bg_should_fill, config) ==
    LET none_or_override == NoneOrOverride(panel_side)
    IN  IF line_is_empty \/ line_index = None THEN <<none_or_override, config.null_style>>
        ELSE LET policy == GetShouldRightFill(diff_style_sections[line_index[1] + 1],
                                              state, bg_should_fill, config)
                 bg_fill_mode == policy[1]
                 fill_style_ == policy[2]
             IN  CASE bg_fill_mode = None -> <<none_or_override, config.null_style>>
                   [] panel_side = Left -> <<Some("Spaces"), fill_style_>>
                   [] OTHER -> <<bg_fill_mode, fill_style_>>

\* pad_panel_line_to_width, the empty line marker: the line, or the panic of
\* an empty line in a state that has no marker.
PadMarker(s, line_is_empty, line_index, state, config) ==
    IF line_is_empty /\ line_index # None
    THEN CASE state = "HunkMinus" ->
                [line |-> MarkEmptyLine(config.minus_empty_line_marker_style, s), panic |-> FALSE]
           [] state = "HunkPlus" ->
                [line |-> MarkEmptyLine(config.plus_empty_line_marker_style, s), panic |-> FALSE]
           [] state = "HunkZero" -> [line |-> s, panic |-> FALSE]
           [] OTHER -> [line |-> s, panic |-> TRUE]
    ELSE [line |-> s, panic |-> FALSE]

\* pad_panel_line_to_width, the truncation of a line wider than the panel.
PadTruncated(s, width, panel_width, config) ==
    IF width > panel_width THEN TruncateStr(s, panel_width, config.truncation_symbol)
    ELSE s

\* pad_panel_line_to_width, the fill of the line up to the panel width.
PadFilled(s, width, panel_width, fill) ==
    LET bg_fill_mode == fill[1]
        fill_style_ == fill[2]
    IN  CASE bg_fill_mode = Some("TryAnsiSequence") -> RightFillBackgroundColor(s, fill_style_)
          [] bg_fill_mode = Some("Spaces") /\ width >= panel_width -> s
          [] bg_fill_mode = Some("Spaces") ->
                s \o PaintText(fill_style_, Repeat(" ", panel_width - width))
          [] OTHER -> s

\* pad_panel_line_to_width as a whole: the marker of an empty line, the
\* truncation, the fill.
PadPanelLineToWidth(s, line_is_empty, line_index, diff_style_sections, state, panel_side, bg_should_fill, config) ==
    LET panel_width == config.side_by_side_data[panel_side].width
        Padded(marked) ==
            LET width == MeasureTextWidth(marked.line)
            IN  [line |-> PadFilled(PadTruncated(marked.line, width, panel_width, config),
                                    width, panel_width,
                                    GetRightFillStyleForPanel(
                                        line_is_empty, line_index, diff_style_sections,
                                        state, panel_side, bg_should_fill, config)),
                 panic |-> marked.panic]
    IN  CHOOSE r \in {Padded(marked) :
                          marked \in {PadMarker(s, line_is_empty, line_index, state, config)}} : TRUE

\* The state paint_minus_or_plus_panel_line hands to Painter::paint_line for
\* the line-number field.
StateForLineNumbersField(line_index, state) ==
    IF line_index # None THEN state ELSE OppositeState(state)

\* The line numbers component, called by Painter::paint_line: the counters
\* after the line-number field of a line in `state` was painted. A first
\* row advances the counter of its state, a continuation row none.
LineNumbersAfter(counters, state) ==
    CASE state = "HunkMinus" -> [counters EXCEPT !.minus = @ + 1]
      [] state = "HunkPlus" -> [counters EXCEPT !.plus = @ + 1]
      [] state = "HunkZero" -> [counters EXCEPT !.minus = @ + 1, !.plus = @ + 1]
      [] OTHER -> counters

\* paint_left_panel_minus_line (panel_side Left) and
\* paint_right_panel_plus_line (panel_side Right): the padded panel line.
PaintPanelMinusOrPlusLine(line_index, diff_style_sections, state, panel_side, bg_should_fill, config) ==
    LET Padded(painted) ==
            IF painted.panic THEN [line |-> <<>>, panic |-> TRUE]
            ELSE PadPanelLineToWidth(painted.line, painted.is_empty, line_index,
                                     diff_style_sections, state, panel_side,
                                     bg_should_fill, config)
    IN  CHOOSE r \in {Padded(painted) :
                          painted \in {PaintMinusOrPlusPanelLine(
                                           line_index, diff_style_sections, state,
                                           panel_side, config)}} : TRUE

\* cli::Width: Fixed(w) or Variable.
Fixed(w) == <<"Fixed", w>>
Variable == <<"Variable">>

\* SideBySideData::new_sbs: two panels of half the declared width if it is
\* fixed, of half the terminal width otherwise.
new_sbs(decorations_width, available_terminal_width) ==
    LET panel_width == IF decorations_width[1] = "Fixed" THEN decorations_width[2] \div 2
                       ELSE available_terminal_width \div 2
    IN  MinusPlus([width |-> panel_width], [width |-> panel_width])

\* Faulty variant: the fill method plays no part.
is_odd_with_ansi_AnyMethod(width, method) ==
    /\ width[1] = "Fixed"
    /\ width[2] % 2 = 1

\* UseFullPanelWidth::is_odd_with_ansi
is_odd_with_ansi(width, method) ==
    /\ method = "TryAnsiSequence"
    /\ width[1] = "Fixed"
    /\ width[2] % 2 = 1

\* UseFullPanelWidth::adapt_sbs_data
adapt_sbs_data(sbs_data) == [sbs_data EXCEPT ![Right].width = @ + 1]

\* UseFullPanelWidth::sbs_odd_fix
sbs_odd_fix(width, method, sbs_data) ==
    IF is_odd_with_ansi(width, method) THEN adapt_sbs_data(sbs_data) ELSE sbs_data

\* Faulty variant: a line of width + 2 graphemes counts as too long.
LineIsTooLong_OneLess(line_, lw) == GraphemeCount(line_) > lw + 1

\* line_is_too_long: the graphemes of the line, its prefix and its newline
\* included, against the width.
LineIsTooLong(line_, lw) == GraphemeCount(line_) > lw + 2

\* has_long_lines::check_if_too_long: the mask of a side.
check_if_too_long(lines, line_width_, side) ==
    [i \in 1..Len(lines[side]) |-> LineIsTooLong(lines[side][i][1], line_width_[side])]

\* available_line_width: what a panel leaves for text once the line-number
\* field and a kept marker are taken off (saturating subtractions).
AvailableLineWidth(config, formatted_width) ==
    LET SatSub(a, b) == IF a > b THEN a - b ELSE 0
        line_width_(side) ==
            SatSub(SatSub(config.side_by_side_data[side].width, formatted_width[side]),
                   IF config.keep_plus_minus_markers THEN 1 ELSE 0)
    IN  MinusPlus(line_width_(Left), line_width_(Right))

\* Faulty variant: the width is the larger of the two sides.
ZeroLineWidth_Larger(config, line_numbers_data) ==
    LET width == AvailableLineWidth(config, line_numbers_data[1])
    IN  Max(width[Left], width[Right])

\* The width wrap_zero_block wraps at: the smaller of the two sides.
ZeroLineWidth(config, line_numbers_data) ==
    IF line_numbers_data # None
    THEN LET width == AvailableLineWidth(config, line_numbers_data[1])
         IN  Min(width[Left], width[Right])
    ELSE Min(config.side_by_side_data[Left].width, config.side_by_side_data[Right].width)

\* states.resize_with(n, || State::HunkZeroWrapped)
ResizeWithZeroWrapped(states, n) ==
    [k \in 1..n |-> IF k <= Len(states) THEN states[k] ELSE "HunkZeroWrapped"]

\* wrap_zero_block: the states, the syntax rows and the diff rows of one
\* context line.
WrapZeroBlock(cfg, config, raw_line, states, syntax_style_sections, diff_style_sections, line_numbers_data, inline_hint_background) ==
    LET lw == ZeroLineWidth(config, line_numbers_data)
        should_wrap == LineIsTooLong(raw_line, lw)
        inline_hint_style_ == IF inline_hint_background THEN Some(InlineHintStyle) ELSE None
        Returned(syntax_style, diff_style) ==
            [states |-> ResizeWithZeroWrapped(states, Len(syntax_style.result)),
             syntax |-> syntax_style.result,
             diff |-> diff_style.result,
             panic |-> syntax_style.panic \/ diff_style.panic]
    IN  IF should_wrap
        THEN CHOOSE r \in
                 {Returned(syntax_style, diff_style) :
                      syntax_style \in {wrap_line(cfg, Flatten(syntax_style_sections), lw,
                                                  DefaultSyntectStyle,
                                                  Some(InlineHintSyntectStyle))},
                      diff_style \in {wrap_line(cfg, Flatten(diff_style_sections), lw,
                                                NullStyleHighlighted, inline_hint_style_)}}
                 : TRUE
        ELSE [states |-> states, syntax |-> syntax_style_sections,
              diff |-> diff_style_sections, panic |-> FALSE]

\* The state of the row a side of an alignment entry names, or of no row.
EntryState(states, panel_side, line_index) ==
    IF line_index # None THEN states[panel_side][line_index[1] + 1]
    ELSE IF panel_side = Left THEN "HunkMinus" ELSE "HunkPlus"

\* Faulty variant: the right panel comes first.
PanelSides_Reversed == <<Right, Left>>

\* for panel_side in &[Left, Right]
PanelSides == <<Left, Right>>

\* output_buffer.push('\n')
NewlineToken == <<"", NL>>

\* ------------------------------------------------------------ input domains
\* Segment lengths of an input line: at most MaxSegs segments, empty ones
\* included, of at most MaxLen graphemes together.
SegLens ==
    {l \in UNION {[1..k -> 0..MaxLen] : k \in 0..MaxSegs} : SumSeq(l) <= MaxLen}

\* The line with these segment lengths: the text is a prefix of `text`,
\* the styles alternate.
MkSegs(lens, text) ==
    [i \in 1..Len(lens) |->
        <<InputStyles[((i - 1) % Len(InputStyles)) + 1],
          SubSeq(text, SumSeq(SubSeq(lens, 1, i - 1)) + 1, SumSeq(SubSeq(lens, 1, i)))>>]

\* The same line ending with a newline, as a segment of its own, as the
\* end of the last segment, or as the end of the segment before an empty
\* last segment.
WithNewline(segs, how) ==
    CASE how = "own" -> Append(segs, <<InputStyles[(Len(segs) % Len(InputStyles)) + 1], <<NL>>>>)
      [] how = "last" /\ segs # <<>> ->
            [segs EXCEPT ![Len(segs)] = <<segs[Len(segs)][1], segs[Len(segs)][2] \o <<NL>>>>]
      [] how = "before_empty" /\ Len(segs) >= 2 /\ segs[Len(segs)][2] = <<>> ->
            [segs EXCEPT ![Len(segs) - 1] = <<segs[Len(segs) - 1][1], segs[Len(segs) - 1][2] \o <<NL>>>>]
      [] OTHER -> segs

Lines(text) ==
    {WithNewline(MkSegs(l, text), how) : l \in SegLens, how \in {"none", "own", "last", "before_empty"}}

WrapConfigs ==
    [left_symbol : {LeftSymbol}, right_symbol : {RightSymbol},
     right_prefix_symbol : {RightPrefixSymbol},
     use_wrap_right_permille : PermilleValues,
     max_lines : 0..MaxCap]

\* Lengths of the lines of a block, widths of its panels, its wrap config.
BlockLens == {5, 8}
BlockWidths == {MinusPlus(3, 4)}
BlockWrapConfigs == {c \in WrapConfigs : c.max_lines = 0 /\ c.use_wrap_right_permille = 370}
PLUS_TEXT == <<"+">> \o Tail(INPUT_TEXT)
ZERO_TEXT(n) == <<" ">> \o SubSeq(INPUT_TEXT, 2, n)

\* A line of a block: the syntax sections are one segment, the diff
\* sections two; both end with the newline.
BlockLine(n, text) ==
    [syntax |-> WithNewline(MkSegs(<<n>>, text), "last"),
     diff |-> WithNewline(MkSegs(<<n \div 2, n - (n \div 2)>>, text), "last")]

\* The valid alignments of at most `n` entries that start at the minus line
\* i and the plus line j, each with the numbers of lines it takes.
RECURSIVE AlignmentsFrom(_, _, _)
AlignmentsFrom(i, j, n) ==
    {[entries |-> <<>>, nm |-> i, np |-> j]}
    \cup (IF n = 0 THEN {}
          ELSE LET Prepend(e, di, dj) ==
                       {[a EXCEPT !.entries = <<e>> \o @] : a \in AlignmentsFrom(i + di, j + dj, n - 1)}
               IN  Prepend(<<Some(i), None>>, 1, 0)
                   \cup Prepend(<<None, Some(j)>>, 0, 1)
                   \cup Prepend(<<Some(i), Some(j)>>, 1, 1))

\* The arguments of wrap_minusplus_block for an alignment: lines and a wrap
\* mask for each side.
BlockInputs ==
    UNION {
        [alignment : {a.entries},
         syntax_diff : [minus : [1..a.nm -> {BlockLine(n, INPUT_TEXT) : n \in BlockLens}],
                        plus : [1..a.np -> {BlockLine(n, PLUS_TEXT) : n \in BlockLens}]],
         wrapinfo : [minus : [1..a.nm -> BOOLEAN], plus : [1..a.np -> BOOLEAN]],
         line_width : BlockWidths,
         inline_hint_background : BOOLEAN]
        : a \in {x \in AlignmentsFrom(0, 0, MaxAlign) : x.entries # <<>>}}

\* The arguments as the operators of the block wrapper read them.
BlockArgs ==
    [wrap_config |-> wrap_config,
     syntax |-> MinusPlus([i \in DOMAIN block_in.syntax_diff.minus |-> block_in.syntax_diff.minus[i].syntax],
                          [i \in DOMAIN block_in.syntax_diff.plus |-> block_in.syntax_diff.plus[i].syntax]),
     diff |-> MinusPlus([i \in DOMAIN block_in.syntax_diff.minus |-> block_in.syntax_diff.minus[i].diff],
                        [i \in DOMAIN block_in.syntax_diff.plus |-> block_in.syntax_diff.plus[i].diff]),
     wrapinfo |-> block_in.wrapinfo,
     line_width |-> block_in.line_width,
     inline_hint_background |-> block_in.inline_hint_background]

\* The configurations the panels are painted under.
PaintConfigs ==
    [side_by_side_data : {MinusPlus([width |-> w], [width |-> w]) : w \in 1..MaxPanelWidth},
     line_numbers_width : {MinusPlus(0, 0), MinusPlus(2, 2)},
     keep_plus_minus_markers : BOOLEAN,
     truncation_symbol : {<<">">>},
     null_style : {"NULL"},
     minus_style : {"MINUS_STYLE"}, plus_style : {"PLUS_STYLE"}, zero_style : {"ZERO_STYLE"},
     minus_empty_line_marker_style : {"MINUS_EMPTY"},
     plus_empty_line_marker_style : {"PLUS_EMPTY"}]

\* The rows a panel shows: the marker, then up to MaxContent graphemes in
\* one segment or two, with the newline or (a wrapped row) without.
PanelRows ==
    {WithNewline(MkSegs(l, INPUT_TEXT), how) :
        l \in UNION {{<<1 + n>>, <<1, n>>} : n \in 0..MaxContent},
        how \in {"none", "last"}}

\* A continuation row holds text after its marker.
HasContent(row) == \E k \in 2..Len(LineGraphemes(row)) : LineGraphemes(row)[k] # NL

\* What the emitters hand to the painting of one panel: a row of its own
\* state, or no row (the other panel is unpaired) in the first state of the
\* side.
PanelInputs ==
    LET Given(sides, states, rows, indices) ==
            [config : PaintConfigs, panel_side : sides, state : states,
             line_index : indices, diff_style_sections : rows,
             background_color_extends_to_terminal_width :
                 {None, Some("Spaces"), Some("TryAnsiSequence")}]
        Rows == {<<r>> : r \in PanelRows}
        Continued == {<<r>> : r \in {x \in PanelRows : HasContent(x)}}
    IN  Given({Left}, {"HunkMinus"}, Rows, {Some(0)})
        \cup Given({Left}, {"HunkMinusWrapped"}, Continued, {Some(0)})
        \cup Given({Left}, {"HunkMinus"}, {<<>>}, {None})
        \cup Given({Right}, {"HunkPlus"}, Rows, {Some(0)})
        \cup Given({Right}, {"HunkPlusWrapped"}, Continued, {Some(0)})
        \cup Given({Right}, {"HunkPlus"}, {<<>>}, {None})
        \cup Given({Left, Right}, {"HunkZero"}, Rows, {Some(0)})
        \cup Given({Left, Right}, {"HunkZeroWrapped"}, Continued, {Some(0)})

\* The rows the emitters are given: the marker and content narrower than
\* the panels or wider, with the newline.
EmitRows == {WithNewline(MkSegs(<<1 + n>>, INPUT_TEXT), "last") : n \in {2, MaxContent + 1}}
EmitConfigs ==
    {c \in PaintConfigs : c.side_by_side_data[Left].width \in {3, MaxPanelWidth}}

\* The states of the n rows of a side: the first is the first row of a
\* line, each later one the first row of a line or a continuation.
RowStatesOf(n, first, wrapped) ==
    {st \in [1..n -> {first, wrapped}] : n > 0 => st[1] = first}

\* The arguments of paint_minus_and_plus_lines_side_by_side: an alignment of
\* rows, the states and the sections of the rows of each side, the fill
\* policy, the configuration, and the line numbers data if there is a
\* line-number field.
EmitInputs ==
    UNION {
        [alignment : {a.entries},
         states : [minus : RowStatesOf(a.nm, "HunkMinus", "HunkMinusWrapped"),
                   plus : RowStatesOf(a.np, "HunkPlus", "HunkPlusWrapped")],
         diff : {MinusPlus([i \in 1..a.nm |-> r], [i \in 1..a.np |-> r]) : r \in EmitRows},
         background_color_extends_to_terminal_width :
             {MinusPlus(b, b) : b \in {None, Some("Spaces"), Some("TryAnsiSequence")}},
         config : {c},
         line_numbers_data :
             {IF c.line_numbers_width[Left] > 0 THEN Some(MinusPlus(1, 1)) ELSE None}]
        : a \in {x \in AlignmentsFrom(0, 0, MaxAlign) : x.entries # <<>>}, c \in EmitConfigs}

\* The arguments of paint_zero_lines_side_by_side: one context line, as
\* text and as syntax and diff sections (the diff sections of a context
\* line are one segment), the configuration with panels of equal width or
\* the right one wider by one, the line numbers data (side-by-side turns
\* line numbers on) with the widths of its two fields, and the fill policy.
ZeroWrapConfigs == {c \in WrapConfigs : c.max_lines \in {0, 2} /\ c.use_wrap_right_permille = 370}
ZeroLens == {3, 5, 7}
ZeroConfigs ==
    [side_by_side_data : {MinusPlus([width |-> w], [width |-> w + d]) :
                              w \in {MaxPanelWidth - 1, MaxPanelWidth}, d \in {0, 1}},
     line_numbers_width : {MinusPlus(1, 1), MinusPlus(1, 2), MinusPlus(2, 1)},
     keep_plus_minus_markers : BOOLEAN,
     truncation_symbol : {<<">">>},
     null_style : {"NULL"},
     minus_style : {"MINUS_STYLE"}, plus_style : {"PLUS_STYLE"}, zero_style : {"ZERO_STYLE"},
     minus_empty_line_marker_style : {"MINUS_EMPTY"},
     plus_empty_line_marker_style : {"PLUS_EMPTY"}]
ZeroInputs ==
    UNION {
        [raw_line : {ZERO_TEXT(n) \o <<NL>>},
         syntax : {<<WithNewline(MkSegs(l, ZERO_TEXT(n)), "last")>> :
                       l \in {<<n>>, <<2, n - 2>>}},
         diff : {<<WithNewline(MkSegs(<<n>>, ZERO_TEXT(n)), "last")>>},
         config : {c},
         line_numbers_data : {Some(c.line_numbers_width)},
         inline_hint_background : {FALSE},
         background_color_extends_to_terminal_width : {None, Some("Spaces")},
         alignment : {<<>>}]
        : n \in ZeroLens, c \in ZeroConfigs}

\* The arguments of new_sbs and sbs_odd_fix: the declared width, the
\* terminal width, the fill method.
GeometryInputs ==
    [name : {"new_sbs"},
     decorations_width : {Fixed(w) : w \in 0..MaxDeclaredWidth} \cup {Variable},
     available_terminal_width : 0..MaxTerminalWidth,
     line_fill_method : {"TryAnsiSequence", "Spaces"}]

\* The arguments of has_long_lines: up to MaxLines lines a side, each with
\* its state, short, middling and long, and a width a side.
LongLinesOf(text, state) ==
    UNION {[1..k -> {<<SubSeq(text, 1, n) \o <<NL>>, state>> : n \in {1, 4, MaxLen}}]
               : k \in 0..MaxLines}
LongLinesInputs ==
    [name : {"has_long_lines"},
     lines : [minus : LongLinesOf(INPUT_TEXT, "HunkMinus"),
              plus : LongLinesOf(PLUS_TEXT, "HunkPlus")],
     line_width : [minus : {0, 2, MaxWidth}, plus : {0, 3, MaxWidth}]]

\* Arguments of wrap_minusplus_block whose alignment is any sequence of one
\* to MaxAlign entries, valid or not (an index out of turn, an entry of two
\* None), over MaxAlign lines a side with masks of the same length.
AnyEntries == {<<m, p>> : m, p \in {None} \cup {Some(i) : i \in 0..(MaxAlign - 1)}}
AnyAlignments == UNION {[1..k -> AnyEntries] : k \in 1..MaxAlign}
AnyBlockInputs ==
    [alignment : AnyAlignments,
     syntax_diff : [minus : {[i \in 1..MaxAlign |-> BlockLine(n, INPUT_TEXT)] : n \in BlockLens},
                    plus : {[i \in 1..MaxAlign |-> BlockLine(n, PLUS_TEXT)] : n \in BlockLens}],
     wrapinfo : [minus : {[i \in 1..MaxAlign |-> b] : b \in BOOLEAN},
                 plus : {[i \in 1..MaxAlign |-> b] : b \in BOOLEAN}],
     line_width : BlockWidths,
     inline_hint_background : {FALSE}]

\* ------------------------------------------------------ wrap_line, stepwise
WrapState == [stack |-> stack, curr_line |-> curr_line, result |-> result, panic |-> FALSE]

\* wrap_minusplus_block is not running.
BlockIdle ==
    /\ block_in = [alignment |-> <<>>,
                   syntax_diff |-> MinusPlus(<<>>, <<>>),
                   wrapinfo |-> MinusPlus(<<>>, <<>>),
                   line_width |-> MinusPlus(0, 0),
                   inline_hint_background |-> FALSE]
    /\ entry_index = 0
    /\ new_alignment = BlockStart.new_alignment
    /\ new_states = BlockStart.new_states
    /\ new_wrapped_syntax = BlockStart.new_wrapped_syntax
    /\ new_wrapped_diff = BlockStart.new_wrapped_diff
    /\ m_expected = BlockStart.m_expected
    /\ p_expected = BlockStart.p_expected

\* No panel is being painted.
PaintIdle ==
    /\ paint_in = [panel_side |-> Left]
    /\ panel_line = <<>>
    /\ panel_line_is_empty = TRUE
    /\ text_width = 0

\* No emitter is running.
EmitIdle ==
    /\ emit_in = [alignment |-> <<>>]
    /\ zero_block = [states |-> <<>>]
    /\ row_index = 0
    /\ line_number = MinusPlus(0, 0)
    /\ output_buffer = <<>>
    /\ painter_calls = <<>>

\* Neither new_sbs nor has_long_lines is running.
CallIdle ==
    /\ call_in = [name |-> "none"]
    /\ call_out = [name |-> "none"]

WrapInit ==
    /\ BlockIdle
    /\ PaintIdle
    /\ EmitIdle
    /\ CallIdle
    /\ wrap_config \in WrapConfigs
    /\ line \in Lines(INPUT_TEXT)
    /\ line_width \in 0..MaxWidth
    /\ fill_style = FillStyle
    /\ inline_hint_style \in {<<>>, <<HintStyle>>}
    /\ stack = Reverse(line)
    /\ curr_line = CurrLineInit
    /\ result = <<>>
    /\ pc = "loop"

WrapArgsUnchanged ==
    UNCHANGED <<wrap_config, line, line_width, fill_style, inline_hint_style,
                block_vars, paint_vars, emit_vars, call_vars>>

\* One pass of the while loop.
WrapLoopPass ==
    /\ pc = "loop"
    /\ LoopCond(WrapState, line_width, wrap_config)
    /\ LET st == LoopBody(WrapState, line_width, fill_style, inline_hint_style, wrap_config)
       IN  /\ stack' = st.stack
           /\ curr_line' = st.curr_line
           /\ result' = st.result
           /\ pc' = IF st.panic THEN "panic" ELSE "loop"
    /\ WrapArgsUnchanged

\* The loop ends; the second line is right-aligned if it qualifies.
WrapRightAlign ==
    /\ pc = "loop"
    /\ ~LoopCond(WrapState, line_width, wrap_config)
    /\ LET st == RightAlign(WrapState, line_width, fill_style, inline_hint_style, wrap_config)
       IN  /\ curr_line' = st.curr_line
           /\ result' = st.result
    /\ pc' = "push"
    /\ UNCHANGED stack
    /\ WrapArgsUnchanged

\* The current line joins the result.
WrapPushCurrLine ==
    /\ pc = "push"
    /\ result' = PushCurrLine(WrapState).result
    /\ pc' = "leftover"
    /\ UNCHANGED <<stack, curr_line>>
    /\ WrapArgsUnchanged

\* What is left on the stack joins the last line; wrap_line returns.
\* (The stack is moved out of; its value is kept for reference.)
WrapAppendLeftover ==
    /\ pc = "leftover"
    /\ result' = AppendLeftover(WrapState).result
    /\ pc' = "done"
    /\ UNCHANGED <<stack, curr_line>>
    /\ WrapArgsUnchanged

WrapNext == WrapLoopPass \/ WrapRightAlign \/ WrapPushCurrLine \/ WrapAppendLeftover

Init == WrapInit
Next == WrapNext
Spec == Init /\ [][Next]_vars

\* wrap_line was called without a cap on the rows, with a width of 2 or more.
Uncapped == line_width >= 2 /\ wrap_config.max_lines = 0

\* wrap_line called without a cap runs to its return: a call that can take a
\* step takes it.
UncappedInit == WrapInit /\ Uncapped
SpecFair == UncappedInit /\ [][Next]_vars /\ WF_vars(Next)

\* ---------------------------------------------- wrap_minusplus_block, stepwise
BlockState ==
    [new_alignment |-> new_alignment, new_states |-> new_states,
     new_wrapped_syntax |-> new_wrapped_syntax, new_wrapped_diff |-> new_wrapped_diff,
     m_expected |-> m_expected, p_expected |-> p_expected,
     start |-> 0, extended_to |-> 0, panic |-> ""]

\* wrap_line is not running on its own.
WrapIdle ==
    /\ line = <<>>
    /\ line_width = 0
    /\ fill_style = FillStyle
    /\ inline_hint_style = <<>>
    /\ stack = <<>>
    /\ curr_line = CurrLineInit
    /\ result = <<>>

BlockInit ==
    /\ WrapIdle
    /\ PaintIdle
    /\ EmitIdle
    /\ CallIdle
    /\ wrap_config \in BlockWrapConfigs
    /\ block_in \in BlockInputs
    /\ entry_index = 0
    /\ new_alignment = BlockStart.new_alignment
    /\ new_states = BlockStart.new_states
    /\ new_wrapped_syntax = BlockStart.new_wrapped_syntax
    /\ new_wrapped_diff = BlockStart.new_wrapped_diff
    /\ m_expected = BlockStart.m_expected
    /\ p_expected = BlockStart.p_expected
    /\ pc = "block_loop"

\* One pass of the loop over the alignment.
BlockLoopPass ==
    /\ pc = "block_loop"
    /\ entry_index < Len(block_in.alignment)
    /\ \E b \in {BlockPass(BlockState, BlockArgs, block_in.alignment[entry_index + 1])} :
           /\ new_alignment' = b.new_alignment
           /\ new_states' = b.new_states
           /\ new_wrapped_syntax' = b.new_wrapped_syntax
           /\ new_wrapped_diff' = b.new_wrapped_diff
           /\ m_expected' = b.m_expected
           /\ p_expected' = b.p_expected
           /\ pc' = IF b.panic # "" THEN "block_panic" ELSE "block_loop"
    /\ entry_index' = entry_index + 1
    /\ UNCHANGED <<wrap_config, block_in, wrap_vars, paint_vars, emit_vars, call_vars>>

\* The alignment is exhausted; the four new vectors are returned.
BlockReturn ==
    /\ pc = "block_loop"
    /\ entry_index = Len(block_in.alignment)
    /\ pc' = "block_done"
    /\ UNCHANGED <<wrap_config, wrap_vars, block_vars, paint_vars, emit_vars, call_vars>>

BlockNext == BlockLoopPass \/ BlockReturn
SpecBlock == BlockInit /\ [][BlockNext]_vars

\* wrap_minusplus_block called with any alignment.
BlockAnyInit ==
    /\ WrapIdle
    /\ PaintIdle
    /\ EmitIdle
    /\ CallIdle
    /\ wrap_config \in BlockWrapConfigs
    /\ block_in \in AnyBlockInputs
    /\ entry_index = 0
    /\ new_alignment = BlockStart.new_alignment
    /\ new_states = BlockStart.new_states
    /\ new_wrapped_syntax = BlockStart.new_wrapped_syntax
    /\ new_wrapped_diff = BlockStart.new_wrapped_diff
    /\ m_expected = BlockStart.m_expected
    /\ p_expected = BlockStart.p_expected
    /\ pc = "block_loop"

SpecBlockAny == BlockAnyInit /\ [][BlockNext]_vars

\* ------------------------------------------- the painting of a panel, stepwise
PaintInit ==
    /\ WrapIdle
    /\ BlockIdle
    /\ EmitIdle
    /\ CallIdle
    /\ wrap_config \in BlockWrapConfigs
    /\ paint_in \in PanelInputs
    /\ panel_line = <<>>
    /\ panel_line_is_empty = TRUE
    /\ text_width = 0
    /\ pc = "paint"

PaintRest == UNCHANGED <<wrap_config, wrap_vars, block_vars, paint_in, emit_vars, call_vars>>

PanelWidth == paint_in.config.side_by_side_data[paint_in.panel_side].width

\* The panel line is painted: by paint_minus_or_plus_panel_line for a minus
\* or plus row, by Painter::paint_line for a row of paint_zero_lines_side_by_side.
PaintPanelLine ==
    /\ pc = "paint"
    /\ LET zero == paint_in.state \in {"HunkZero", "HunkZeroWrapped"}
           painted ==
               IF zero
               THEN PaintLine(paint_in.diff_style_sections[paint_in.line_index[1] + 1],
                              paint_in.state, paint_in.panel_side,
                              IF paint_in.config.keep_plus_minus_markers
                              THEN PaintText(paint_in.config.zero_style, <<" ">>) ELSE <<>>,
                              paint_in.config)
               ELSE PaintMinusOrPlusPanelLine(paint_in.line_index, paint_in.diff_style_sections,
                                              paint_in.state, paint_in.panel_side,
                                              paint_in.config)
       IN  /\ panel_line' = painted.line
           /\ panel_line_is_empty' = painted.is_empty
           /\ pc' = IF painted.panic THEN "paint_panic" ELSE "pad_marker"
    /\ UNCHANGED text_width
    /\ PaintRest

\* pad_panel_line_to_width: the empty line marker.
PadEmptyLineMarker ==
    /\ pc = "pad_marker"
    /\ LET marked == PadMarker(panel_line, panel_line_is_empty, paint_in.line_index,
                               paint_in.state, paint_in.config)
       IN  /\ panel_line' = marked.line
           /\ pc' = IF marked.panic THEN "paint_panic" ELSE "pad_truncate"
    /\ UNCHANGED <<panel_line_is_empty, text_width>>
    /\ PaintRest

\* pad_panel_line_to_width: the width is measured, a wider line truncated.
PadTruncate ==
    /\ pc = "pad_truncate"
    /\ text_width' = MeasureTextWidth(panel_line)
    /\ panel_line' = PadTruncated(panel_line, MeasureTextWidth(panel_line), PanelWidth,
                                  paint_in.config)
    /\ pc' = "pad_fill"
    /\ UNCHANGED panel_line_is_empty
    /\ PaintRest

\* pad_panel_line_to_width: the fill; the panel line is complete.
PadFill ==
    /\ pc = "pad_fill"
    /\ panel_line' =
           PadFilled(panel_line, text_width, PanelWidth,
                     GetRightFillStyleForPanel(
                         panel_line_is_empty, paint_in.line_index,
                         paint_in.diff_style_sections, paint_in.state, paint_in.panel_side,
                         paint_in.background_color_extends_to_terminal_width,
                         paint_in.config))
    /\ pc' = "paint_done"
    /\ UNCHANGED <<panel_line_is_empty, text_width>>
    /\ PaintRest

PaintNext == PaintPanelLine \/ PadEmptyLineMarker \/ PadTruncate \/ PadFill
SpecPaint == PaintInit /\ [][PaintNext]_vars


\* ------------------- paint_minus_and_plus_lines_side_by_side, stepwise
EmitInit ==
    /\ WrapIdle
    /\ BlockIdle
    /\ PaintIdle
    /\ CallIdle
    /\ wrap_config \in BlockWrapConfigs
    /\ emit_in \in EmitInputs
    /\ zero_block = [states |-> <<>>]
    /\ row_index = 0
    /\ line_number = IF emit_in.line_numbers_data = None THEN MinusPlus(0, 0)
                     ELSE emit_in.line_numbers_data[1]
    /\ output_buffer = <<>>
    /\ painter_calls = <<>>
    /\ pc = "emit_left"

EmitRest ==
    UNCHANGED <<wrap_config, wrap_vars, block_vars, paint_vars, call_vars, emit_in, zero_block>>

\* One panel of the row the loop is at: the panel line is painted, which
\* has the line numbers component count, padded and pushed to the buffer.
EmitPanel(panel_side, next_pc) ==
    LET line_index == emit_in.alignment[row_index + 1][IF panel_side = Left THEN 1 ELSE 2]
        state == EntryState(emit_in.states, panel_side, line_index)
        field_state == StateForLineNumbersField(line_index, state)
    IN  /\ \E painted \in {PaintPanelMinusOrPlusLine(
                                line_index, emit_in.diff[panel_side], state, panel_side,
                                emit_in.background_color_extends_to_terminal_width[panel_side],
                                emit_in.config)} :
               /\ output_buffer' = output_buffer \o painted.line
               /\ pc' = IF painted.panic THEN "emit_panic" ELSE next_pc
        /\ line_number' = IF emit_in.line_numbers_data = None THEN line_number
                          ELSE LineNumbersAfter(line_number, field_state)
        /\ painter_calls' = Append(painter_calls,
                                   [row |-> row_index, panel_side |-> panel_side,
                                    state |-> field_state])
        /\ UNCHANGED row_index
        /\ EmitRest

EmitLeftPanel ==
    /\ pc = "emit_left"
    /\ row_index < Len(emit_in.alignment)
    /\ EmitPanel(Left, "emit_right")

EmitRightPanel ==
    /\ pc = "emit_right"
    /\ EmitPanel(Right, "emit_newline")

\* The row is ended; the loop goes to the next entry.
EmitNewline ==
    /\ pc = "emit_newline"
    /\ output_buffer' = Append(output_buffer, NewlineToken)
    /\ row_index' = row_index + 1
    /\ pc' = "emit_left"
    /\ UNCHANGED <<line_number, painter_calls>>
    /\ EmitRest

EmitReturn ==
    /\ pc = "emit_left"
    /\ row_index = Len(emit_in.alignment)
    /\ pc' = "emit_done"
    /\ UNCHANGED <<row_index, line_number, output_buffer, painter_calls>>
    /\ EmitRest

EmitNext == EmitLeftPanel \/ EmitRightPanel \/ EmitNewline \/ EmitReturn
SpecEmit == EmitInit /\ [][EmitNext]_vars

\* ------------- wrap_minusplus_block, then the painting of what it returned
\* A line of a hunk: a line of a block, or the same text in one segment with
\* an empty segment after the newline, in the syntax and in the diff sections.
HunkLine(n, text, how) ==
    IF how = "before_empty"
    THEN [syntax |-> WithNewline(MkSegs(<<n, 0>>, text), how),
          diff |-> WithNewline(MkSegs(<<n, 0>>, text), how)]
    ELSE BlockLine(n, text)
HunkLines(text) == {HunkLine(n, text, how) : n \in BlockLens, how \in {"last", "before_empty"}}

\* The arguments of wrap_minusplus_block for the lines of a hunk of up to
\* MaxHunkEntries alignment entries: the wrap mask is the one has_long_lines
\* computes for the lines and the widths.
HunkBlockInputs ==
    UNION {
        {[alignment |-> a.entries,
          syntax_diff |-> MinusPlus(m, p),
          wrapinfo |-> MinusPlus(
              [i \in 1..a.nm |-> LineIsTooLong(LineGraphemes(m[i].syntax), w[Left])],
              [i \in 1..a.np |-> LineIsTooLong(LineGraphemes(p[i].syntax), w[Right])]),
          line_width |-> w,
          inline_hint_background |-> FALSE]
         : m \in [1..a.nm -> HunkLines(INPUT_TEXT)], p \in [1..a.np -> HunkLines(PLUS_TEXT)],
           w \in BlockWidths}
        : a \in {x \in AlignmentsFrom(0, 0, MaxHunkEntries) : x.entries # <<>>}}

HunkInit ==
    /\ WrapIdle
    /\ PaintIdle
    /\ EmitIdle
    /\ CallIdle
    /\ wrap_config \in BlockWrapConfigs
    /\ block_in \in HunkBlockInputs
    /\ entry_index = 0
    /\ new_alignment = BlockStart.new_alignment
    /\ new_states = BlockStart.new_states
    /\ new_wrapped_syntax = BlockStart.new_wrapped_syntax
    /\ new_wrapped_diff = BlockStart.new_wrapped_diff
    /\ m_expected = BlockStart.m_expected
    /\ p_expected = BlockStart.p_expected
    /\ pc = "block_loop"

\* The caller hands the alignment, the states and the diff rows that
\* wrap_minusplus_block returned to paint_minus_and_plus_lines_side_by_side.
HunkEmitStart ==
    /\ pc = "block_done"
    /\ \E c \in EmitConfigs, b \in {None, Some("Spaces"), Some("TryAnsiSequence")} :
           /\ emit_in' = [alignment |-> new_alignment,
                          states |-> new_states,
                          diff |-> new_wrapped_diff,
                          background_color_extends_to_terminal_width |-> MinusPlus(b, b),
                          config |-> c,
                          line_numbers_data |->
                              IF c.line_numbers_width[Left] > 0 THEN Some(MinusPlus(1, 1))
                              ELSE None]
           /\ line_number' = IF c.line_numbers_width[Left] > 0 THEN MinusPlus(1, 1)
                             ELSE MinusPlus(0, 0)
    /\ pc' = "emit_left"
    /\ UNCHANGED <<wrap_config, wrap_vars, block_vars, paint_vars, call_vars,
                   zero_block, row_index, output_buffer, painter_calls>>

HunkNext == BlockNext \/ HunkEmitStart \/ EmitNext
SpecHunk == HunkInit /\ [][HunkNext]_vars

\* --------------------------------- paint_zero_lines_side_by_side, stepwise
ZeroInit ==
    /\ WrapIdle
    /\ BlockIdle
    /\ PaintIdle
    /\ CallIdle
    /\ wrap_config \in ZeroWrapConfigs
    /\ emit_in \in ZeroInputs
    /\ zero_block = [states |-> <<>>]
    /\ row_index = 0
    /\ line_number = MinusPlus(0, 0)
    /\ output_buffer = <<>>
    /\ painter_calls = <<>>
    /\ pc = "zero_wrap"

\* The counters are the line numbers component's, which the painter calls;
\* they are not followed for a context row.
ZeroRest ==
    UNCHANGED <<wrap_config, wrap_vars, block_vars, paint_vars, call_vars, emit_in,
                line_number>>

\* The line is handed to wrap_zero_block with the one state HunkZero.
ZeroWrap ==
    /\ pc = "zero_wrap"
    /\ \E wrapped \in {WrapZeroBlock(wrap_config, emit_in.config, emit_in.raw_line,
                                     <<"HunkZero">>, emit_in.syntax, emit_in.diff,
                                     emit_in.line_numbers_data,
                                     emit_in.inline_hint_background)} :
           /\ zero_block' = wrapped
           /\ pc' = IF wrapped.panic THEN "zero_panic" ELSE "zero_left"
    /\ UNCHANGED <<row_index, output_buffer, painter_calls>>
    /\ ZeroRest

\* The rows the zip_eq of syntax rows, diff rows and states still has.
ZeroRowsLeft ==
    /\ row_index < Len(zero_block.syntax)
    /\ row_index < Len(zero_block.diff)
    /\ row_index < Len(zero_block.states)

\* One panel of the row the loop is at: Painter::paint_line, then
\* pad_panel_line_to_width, then the push to the buffer.
ZeroPanel(panel_side, next_pc) ==
    LET state == zero_block.states[row_index + 1]
        painted_prefix == IF emit_in.config.keep_plus_minus_markers
                          THEN PaintText(emit_in.config.zero_style, <<" ">>) ELSE <<>>
        Padded(painted) ==
            PadPanelLineToWidth(painted.line, painted.is_empty, Some(row_index),
                                zero_block.diff, state, panel_side,
                                emit_in.background_color_extends_to_terminal_width,
                                emit_in.config)
    IN  /\ \E panel \in {Padded(painted) :
                             painted \in {PaintLine(zero_block.diff[row_index + 1], state,
                                                    panel_side, painted_prefix,
                                                    emit_in.config)}} :
               /\ output_buffer' = output_buffer \o panel.line
               /\ pc' = IF panel.panic THEN "zero_panic" ELSE next_pc
        /\ painter_calls' = Append(painter_calls,
                                   [row |-> row_index, panel_side |-> panel_side,
                                    state |-> state])
        /\ UNCHANGED <<row_index, zero_block>>
        /\ ZeroRest

\* The first panel of the row.
ZeroLeftPanel ==
    /\ pc = "zero_left"
    /\ ZeroRowsLeft
    /\ ZeroPanel(PanelSides[1], "zero_right")

\* The second panel of the row.
ZeroRightPanel ==
    /\ pc = "zero_right"
    /\ ZeroPanel(PanelSides[2], "zero_newline")

ZeroNewline ==
    /\ pc = "zero_newline"
    /\ output_buffer' = Append(output_buffer, NewlineToken)
    /\ row_index' = row_index + 1
    /\ pc' = "zero_left"
    /\ UNCHANGED <<zero_block, painter_calls>>
    /\ ZeroRest

\* The loop ends: zip_eq panics unless its three iterators end together.
ZeroReturn ==
    /\ pc = "zero_left"
    /\ ~ZeroRowsLeft
    /\ pc' = IF /\ row_index = Len(zero_block.syntax)
                /\ row_index = Len(zero_block.diff)
                /\ row_index = Len(zero_block.states)
             THEN "zero_done" ELSE "zero_panic"
    /\ UNCHANGED <<row_index, zero_block, output_buffer, painter_calls>>
    /\ ZeroRest

ZeroNext == ZeroWrap \/ ZeroLeftPanel \/ ZeroRightPanel \/ ZeroNewline \/ ZeroReturn
SpecZero == ZeroInit /\ [][ZeroNext]_vars


\* ------------------------------------------ new_sbs and sbs_odd_fix, in turn
OnlyCall ==
    /\ WrapIdle
    /\ BlockIdle
    /\ PaintIdle
    /\ EmitIdle
    /\ wrap_config \in BlockWrapConfigs

CallRest ==
    UNCHANGED <<wrap_config, wrap_vars, block_vars, paint_vars, emit_vars, call_in>>

GeometryInit ==
    /\ OnlyCall
    /\ call_in \in GeometryInputs
    /\ call_out = [name |-> "none"]
    /\ pc = "new_sbs"

\* The panels are made.
GeometryNewSbs ==
    /\ pc = "new_sbs"
    /\ call_out' = [name |-> "new_sbs",
                    sbs_data |-> new_sbs(call_in.decorations_width,
                                         call_in.available_terminal_width)]
    /\ pc' = "sbs_odd_fix"
    /\ CallRest

\* The panels go through sbs_odd_fix.
GeometryOddFix ==
    /\ pc = "sbs_odd_fix"
    /\ call_out' = [name |-> "sbs_odd_fix",
                    sbs_data |-> sbs_odd_fix(call_in.decorations_width,
                                             call_in.line_fill_method,
                                             call_out.sbs_data)]
    /\ pc' = "geometry_done"
    /\ CallRest

GeometryNext == GeometryNewSbs \/ GeometryOddFix
SpecGeometry == GeometryInit /\ [][GeometryNext]_vars

\* ------------------------------------------------- has_long_lines, stepwise
LongLinesInit ==
    /\ OnlyCall
    /\ call_in \in LongLinesInputs
    /\ call_out = [name |-> "has_long_lines",
                   wrap_any |-> MinusPlus(FALSE, FALSE),
                   wrapping_lines |-> MinusPlus(<<>>, <<>>)]
    /\ pc = "check_left"

\* check_if_too_long(side): the mask of the side, and whether it holds a
\* true entry.
LongLinesCheck(side, next_pc) ==
    /\ \E mask \in {check_if_too_long(call_in.lines, call_in.line_width, side)} :
           call_out' = [call_out EXCEPT
                            !.wrapping_lines[side] = mask,
                            !.wrap_any[side] = @ \/ (\E i \in 1..Len(mask) : mask[i])]
    /\ pc' = next_pc
    /\ CallRest

LongLinesCheckLeft ==
    /\ pc = "check_left"
    /\ LongLinesCheck(Left, "check_right")

LongLinesCheckRight ==
    /\ pc = "check_right"
    /\ LongLinesCheck(Right, "long_lines_return")

\* (wrap_any[Left] || wrap_any[Right], wrapping_lines)
LongLinesReturn ==
    /\ pc = "long_lines_return"
    /\ call_out' = [name |-> "returned",
                    flag |-> call_out.wrap_any[Left] \/ call_out.wrap_any[Right],
                    wrapping_lines |-> call_out.wrapping_lines]
    /\ pc' = "long_lines_done"
    /\ CallRest

LongLinesNext == LongLinesCheckLeft \/ LongLinesCheckRight \/ LongLinesReturn
SpecLongLines == LongLinesInit /\ [][LongLinesNext]_vars

\* ------------------------------------------------- the two emitters of rows
RowsInit == EmitInit \/ ZeroInit
RowsNext == EmitNext \/ ZeroNext
SpecRows == RowsInit /\ [][RowsNext]_vars



\* ------------------------------------------------------------------ claims
\* The glyphs wrap_line inserts; the input text holds none of them.
InsertedGlyphs ==
    {LINEPREFIX[1], LeftSymbol[1], RightSymbol[1], RightPrefixSymbol[1], " "}
IsInputGrapheme(sg) == sg[2] \notin InsertedGlyphs
InputGraphemesOf(segs) == SelectSeq(StyledGraphemes(segs), IsInputGrapheme)

\* The loop left segments on the stack: the line cap stopped the wrapping.
CapStopped == stack # <<>>

\* C1: with max_lines = c > 0 wrap_line returns at most c rows, and with
\* line_width <= 1 at most one row whatever max_lines is.
C1_RowCap ==
    pc = "done" =>
        /\ (wrap_config.max_lines > 0 => Len(result) <= wrap_config.max_lines)
        /\ (line_width <= 1 => Len(result) <= 1)

\* A line of several rows that the cap cut short.
C1_Witness ==
    /\ pc = "done"
    /\ wrap_config.max_lines >= 2
    /\ Len(result) = wrap_config.max_lines
    /\ CapStopped
    /\ Len(LineGraphemes(Reverse(stack))) > line_width + 1

\* C2: the styled graphemes of the rows, the inserted ones removed, are the
\* styled graphemes of the input in the same order; and what the cap left
\* unwrapped ends the last row, segment by segment, in order.
C2_ContentPreserved ==
    pc = "done" =>
        /\ InputGraphemesOf(Flatten(result)) = StyledGraphemes(line)
        /\ CapStopped =>
              /\ result # <<>>
              /\ Len(Last(result)) >= Len(stack)
              /\ SubSeq(Last(result), Len(Last(result)) - Len(stack) + 1, Len(Last(result)))
                    = Reverse(stack)

\* A wrapped line whose rest, of two segments or more, the cap left unwrapped.
C2_Witness ==
    /\ pc = "done"
    /\ Len(result) >= 2
    /\ Len(stack) >= 2
    /\ stack[1] # stack[2]
    /\ Len(StyledGraphemes(line)) = MaxLen + 1

\* The grapheme count of a line without one trailing newline.
CountWithoutNewline(segs) ==
    LET g == LineGraphemes(segs)
    IN  IF EndsWithNewline(g) THEN Len(g) - 1 ELSE Len(g)

\* The input has a grapheme and fits line_width + 1 columns.
Fits == LineGraphemes(line) # <<>> /\ CountWithoutNewline(line) <= line_width + 1

\* C3 (as claimed): every segmentation of a line that fits comes back as one
\* row equal to the input.
C3_FitsNotWrapped == (pc = "done" /\ Fits) => result = <<line>>

\* The style every inserted symbol is to carry.
ExpectedSymbolStyle == IF inline_hint_style # <<>> THEN inline_hint_style[1] ELSE fill_style

\* A segment that is a continuation or right-align marker.
IsMarker(seg) == seg[2] \in {wrap_config.left_symbol, wrap_config.right_symbol}

\* C8: every row but the last ends with the continuation or the right-align
\* marker, one grapheme wide and in the symbol style; the last row of a
\* result the cap did not cut short ends with no such marker.
C8_ContinuationInvariant ==
    pc = "done" =>
        /\ \A i \in 1..(Len(result) - 1) :
              /\ result[i] # <<>>
              /\ IsMarker(Last(result[i]))
              /\ GraphemeCount(Last(result[i])[2]) = 1
              /\ Last(result[i])[1] = ExpectedSymbolStyle
        /\ (~CapStopped /\ result # <<>>) =>
              /\ Last(result) # <<>>
              /\ ~IsMarker(Last(Last(result)))

\* Three rows or more, wrapped to the end, with an inline-hint style.
C8_Witness ==
    /\ pc = "done"
    /\ Len(result) >= 3
    /\ ~CapStopped
    /\ inline_hint_style # <<>>

\* A right-aligned result, told by the marker that ends its first row.
RightAligned ==
    /\ result # <<>>
    /\ result[1] # <<>>
    /\ Last(result[1])[2] = wrap_config.right_symbol

\* The right-align step changed the rows: right-align activated.
RightAlignActs == pc = "loop" /\ pc' = "push" /\ <<result', curr_line'>> # <<result, curr_line>>

\* What the right-align step does to the one finished row and to the
\* current line when it activates.
C9_Step ==
    RightAlignActs =>
        LET tail == Tail(curr_line.line_segments)
            text_len == Len(LineGraphemes(tail))
            pad_len == (line_width + 1) - text_len - 1
            new == curr_line'.line_segments
            k == Len(new) - Len(tail) - 2
        IN  /\ Len(result) = 1 /\ Len(result') = 1
            /\ Last(result[1])[2] = wrap_config.left_symbol
            /\ result'[1] = Front(result[1]) \o <<<<Last(result[1])[1], wrap_config.right_symbol>>>>
            /\ curr_line.line_segments[1] = <<DefaultStyle, LINEPREFIX>>
            /\ k >= 0
            /\ new[1] = <<DefaultStyle, LINEPREFIX>>
            /\ StyledGraphemes(SubSeq(new, 2, 1 + k)) = Repeat(<<fill_style, " ">>, pad_len)
            /\ new[2 + k][2] = wrap_config.right_prefix_symbol
            /\ SubSeq(new, 3 + k, Len(new)) = tail

\* C9: when right-align activates the first row only changes its final
\* marker to right_symbol and the second row is "_", pad_len spaces in the
\* fill style, right_prefix_symbol and the original second-row content; the
\* result has exactly these two rows.
C9_RightAlignResult ==
    /\ [][C9_Step]_vars
    /\ [](pc = "done" /\ RightAligned => Len(result) = 2 /\ result[2] = curr_line.line_segments)

\* A right-aligned result whose second row ends with two segments of the
\* input, the last one a newline.
C9_Witness ==
    /\ pc = "done"
    /\ RightAligned
    /\ Len(result[2]) >= 5
    /\ Last(result[2])[2] = <<NL>>

\* The graphemes of the input text in the second row.
SecondRowTextLen == Len(InputGraphemesOf(result[2]))

\* The conditions under which the claim has the second row right-aligned.
RightAlignExpected ==
    /\ Len(result) = 2
    /\ SecondRowTextLen >= 1
    /\ wrap_config.use_wrap_right_permille > (SecondRowTextLen * 1000) \div (line_width + 1)
    /\ (line_width + 1) - Len(LINEPREFIX) - SecondRowTextLen >= 2

\* No row holds a right-align marker, a padding space or a right-prefix
\* symbol, and every row but the last ends with left_symbol.
PlainlyWrapped ==
    /\ \A i \in 1..(Len(result) - 1) : Last(result[i])[2] = wrap_config.left_symbol
    /\ \A i \in 1..Len(result) : \A j \in 1..Len(result[i]) :
          \A n \in 1..Len(result[i][j][2]) :
              result[i][j][2][n] \notin {RightSymbol[1], RightPrefixSymbol[1], " "}

\* C10 (as claimed): the second row is right-aligned exactly when there are
\* two rows, the second holds text, the permille threshold exceeds its
\* content permille and a pad grapheme and the right-prefix marker fit;
\* otherwise the rows are plainly wrapped.
C10_RightAlignActivation ==
    pc = "done" =>
        /\ RightAligned <=> RightAlignExpected
        /\ ~RightAligned => PlainlyWrapped

\* The rows the line `i` (counted from 0) of a side of the block takes:
\* those wrap_line makes of it where the wrap mask asks for wrapping, else one.
RowsOf(side, i) ==
    IF block_in.wrapinfo[side][i + 1]
    THEN Len(wrap_line(wrap_config, block_in.syntax_diff[side][i + 1].diff,
                       block_in.line_width[side], ConfigFillStyle[side],
                       IF block_in.inline_hint_background THEN Some(InlineHintStyle) ELSE None).result)
    ELSE 1

IsPair(entry) == entry[1] # None /\ entry[2] # None

\* The entries a pass of the loop appends to the new alignment.
AddedEntries == SubSeq(new_alignment', Len(new_alignment) + 1, Len(new_alignment'))

C4_Step ==
    LET entry == block_in.alignment[entry_index + 1]
        a == RowsOf(Left, entry[1][1])
        b == RowsOf(Right, entry[2][1])
    IN  (pc = "block_loop" /\ entry_index' = entry_index + 1 /\ IsPair(entry)) =>
            /\ pc' = "block_loop"
            /\ Len(AddedEntries) = Max(a, b)
            /\ \A k \in 1..Min(a, b) : IsPair(AddedEntries[k])
            /\ \A k \in (Min(a, b) + 1)..Max(a, b) :
                    IF a > b
                    THEN AddedEntries[k][1] # None /\ AddedEntries[k][2] = None
                    ELSE AddedEntries[k][1] = None /\ AddedEntries[k][2] # None

WrappedStates == {"HunkMinusWrapped", "HunkPlusWrapped"}

\* The logical line the row `i` (counted from 0) of a side belongs to when it
\* is the first row of that line: the number of first rows before it.
LogicalIndex(side, i) ==
    Cardinality({j \in 1..i : new_states[side][j] \notin WrappedStates})

\* A side of an output entry after the rows of a Wrapped state are discarded
\* and the index of the row is mapped back to the index of its line.
MapBackSide(side, row) ==
    IF row = None \/ new_states[side][row[1] + 1] \in WrappedStates THEN None
    ELSE Some(LogicalIndex(side, row[1]))

RECURSIVE MapBack(_)
MapBack(entries) ==
    IF entries = <<>> THEN <<>>
    ELSE LET e == <<MapBackSide(Left, entries[1][1]), MapBackSide(Right, entries[1][2])>>
         IN  (IF e = <<None, None>> THEN <<>> ELSE <<e>>) \o MapBack(Tail(entries))

\* C5: for every valid input alignment and every wrap mask, discarding every
\* row of the output alignment whose state is HunkMinusWrapped or
\* HunkPlusWrapped and mapping the index of each remaining row back to the
\* index of its logical line gives the input alignment.
C5_AlignmentFidelity ==
    pc = "block_done" => MapBack(new_alignment) = block_in.alignment

\* Two entries, the second a pair, were wrapped into more rows than lines.
C5_Witness ==
    /\ pc = "block_done"
    /\ Len(block_in.alignment) = 2 /\ IsPair(block_in.alignment[2])
    /\ Len(new_alignment) > 4
    /\ Len(new_states[Left]) # Len(new_states[Right])
    /\ MapBack(new_alignment) = block_in.alignment

\* The panel of paint_in is complete and was painted for the given side.
PanelDone(side) == pc = "paint_done" /\ paint_in.panel_side = side

C6_Step ==
    /\ (pc = "pad_truncate" /\ pc' = "pad_fill" /\ paint_in.panel_side = Left
           /\ MeasureTextWidth(panel_line) > PanelWidth) =>
          StripAnsiCodes(panel_line') =
              SubSeq(StripAnsiCodes(panel_line), 1, PanelWidth - 1)
                  \o paint_in.config.truncation_symbol
    /\ (pc = "pad_fill" /\ pc' = "paint_done" /\ paint_in.panel_side = Left
           /\ text_width < PanelWidth) =>
          StripAnsiCodes(panel_line') =
              StripAnsiCodes(panel_line) \o Repeat(" ", PanelWidth - text_width)

\* C6: every left half-row, paired, unpaired blank, empty, short or
\* over-long, of a minus/plus row or of a zero row, is exactly as wide as
\* the left panel once pad_panel_line_to_width is through, escapes not
\* counted: an over-long one is truncated to the panel width and ends with
\* the truncation symbol, a shorter one is padded with panel_width minus
\* visible width spaces.
C6_LeftWidthExact ==
    /\ [][C6_Step]_vars
    /\ [](PanelDone(Left) =>
            /\ MeasureTextWidth(panel_line) = PanelWidth
            /\ text_width > PanelWidth =>
                  Last(StripAnsiCodes(panel_line)) = paint_in.config.truncation_symbol[1])

\* A left half-row with a line number field and text, wider than the panel,
\* was truncated.
C6_Witness ==
    /\ PanelDone(Left)
    /\ paint_in.line_index # None
    /\ paint_in.config.line_numbers_width[Left] > 0
    /\ text_width > PanelWidth
    /\ Last(StripAnsiCodes(panel_line)) = ">"

\* The configured fill method is spaces.
FillMethodSpaces == paint_in.background_color_extends_to_terminal_width = Some("Spaces")

\* C7 (as claimed): with the fill method spaces every right half-row is
\* exactly as wide as the right panel, an unpaired blank, an empty line and
\* a row the right-fill policy gives no fill included.
C7_RightWidthExact ==
    (PanelDone(Right) /\ FillMethodSpaces) => MeasureTextWidth(panel_line) = PanelWidth

\* The right-fill policy gives the row of the panel a fill: the row exists,
\* holds text and ends in a style with a background color.
PolicyFills ==
    /\ paint_in.line_index # None
    /\ ~panel_line_is_empty
    /\ Last(paint_in.diff_style_sections[paint_in.line_index[1] + 1])[1] \in BackgroundStyles

\* C7 (amended): with the fill method spaces a right half-row is never wider
\* than the right panel; it is exactly as wide as the panel when it was
\* painted at least that wide (a wider one is truncated) or when the
\* right-fill policy gives its row a fill; an unpaired blank, an empty line
\* and a row the policy gives no fill keep the width they were painted
\* with and are not padded.
C7_RightWidthAmended ==
    (PanelDone(Right) /\ FillMethodSpaces) =>
        /\ MeasureTextWidth(panel_line) <= PanelWidth
        /\ (text_width >= PanelWidth \/ PolicyFills) => MeasureTextWidth(panel_line) = PanelWidth
        /\ (text_width < PanelWidth /\ ~PolicyFills) => MeasureTextWidth(panel_line) = text_width

\* The right panel of an unpaired minus row: its line number field alone,
\* narrower than the panel.
C7_Witness ==
    /\ PanelDone(Right) /\ FillMethodSpaces
    /\ paint_in.line_index = None
    /\ paint_in.config.line_numbers_width[Right] > 0
    /\ MeasureTextWidth(panel_line) = paint_in.config.line_numbers_width[Right]
    /\ MeasureTextWidth(panel_line) < PanelWidth

\* ---------------------------------------------------------------- C11
\* State::HunkMinus and State::HunkPlus hold Option<String>, the raw line.
\* The states of the model are the names of the variants; a name with what
\* the variant holds is the whole value.
RAW_LINE == "raw line"
StateValue(name, raw_line) == <<name, raw_line>>

\* The states of the lines of a side as they are before the block is
\* wrapped: each holds its raw line or None.
InputStatesOf(side) ==
    LET name == IF side = Left THEN "HunkMinus" ELSE "HunkPlus"
    IN  [1..Len(BlockArgs.syntax[side]) ->
            {StateValue(name, None), StateValue(name, Some(RAW_LINE))}]

\* The states wrap_minusplus_block returns: it pushes HunkMinus(None),
\* HunkPlus(None) and the Wrapped states, which hold nothing.
ReturnedStates(side) ==
    [k \in 1..Len(new_states[side]) |-> StateValue(new_states[side][k], None)]

NothingToWrap ==
    \A side \in {Left, Right} :
        \A i \in 1..Len(block_in.wrapinfo[side]) : ~block_in.wrapinfo[side][i]

\* What wrap_minusplus_block returns apart from the states is what it was given.
AlignmentAndSegmentsUnchanged ==
    /\ new_alignment = block_in.alignment
    /\ \A side \in {Left, Right} :
          /\ new_wrapped_syntax[side] = BlockArgs.syntax[side]
          /\ new_wrapped_diff[side] = BlockArgs.diff[side]

\* C11: if the wrap mask is false for every line on both sides,
\* wrap_minusplus_block returns the input alignment, the input states and
\* the input syntax and diff segment vectors unchanged.
C11_NoOpIdempotence ==
    (pc = "block_done" /\ NothingToWrap) =>
        /\ AlignmentAndSegmentsUnchanged
        /\ \A side \in {Left, Right} :
              \A states \in InputStatesOf(side) : ReturnedStates(side) = states

\* The states of an unwrapped block as wrap_minusplus_block builds them: one
\* for each line, HunkMinus(None) on the left and HunkPlus(None) on the right.
UnwrappedStates(side) ==
    [k \in 1..Len(BlockArgs.syntax[side]) |->
        StateValue(IF side = Left THEN "HunkMinus" ELSE "HunkPlus", None)]

\* C11, amended: if the wrap mask is false for every line on both sides,
\* wrap_minusplus_block returns the input alignment and the input syntax and
\* diff segment vectors unchanged, and for each side one state per line,
\* HunkMinus(None) on the left and HunkPlus(None) on the right: the input
\* states only if none of them holds a raw line.
C11_NoOpAmended ==
    (pc = "block_done" /\ NothingToWrap) =>
        /\ AlignmentAndSegmentsUnchanged
        /\ \A side \in {Left, Right} :
              /\ ReturnedStates(side) = UnwrappedStates(side)
              /\ ReturnedStates(side) \in InputStatesOf(side)

\* A block of two entries, the second a pair, with lines longer than the
\* panels but a mask that is false throughout, was returned as it was.
C11_Witness ==
    /\ pc = "block_done"
    /\ NothingToWrap
    /\ Len(block_in.alignment) = 2 /\ IsPair(block_in.alignment[2])
    /\ \E i \in 1..Len(BlockArgs.diff[Left]) :
            Len(LineGraphemes(BlockArgs.diff[Left][i])) > block_in.line_width[Left] + 2
    /\ new_alignment = block_in.alignment
    /\ Len(new_states[Left]) + Len(new_states[Right]) = 3

\* ---------------------------------------------------------------- C12
\* The logical lines of a side really present in the first n rows of the
\* alignment: the entries that name a row of the side which is the first
\* row of its line.
LinesPresent(panel_side, n) ==
    Cardinality({k \in 1..n :
        LET line_index == emit_in.alignment[k][IF panel_side = Left THEN 1 ELSE 2]
        IN  /\ line_index # None
            /\ emit_in.states[panel_side][line_index[1] + 1] \in {"HunkMinus", "HunkPlus"}})

RowsRendered == pc \in {"emit_left", "emit_done"} /\ emit_in.line_numbers_data # None

\* C12: after paint_minus_and_plus_lines_side_by_side has rendered the rows
\* of any prefix of the alignment, the minus counter and the plus counter
\* have advanced by exactly the number of logical minus lines and logical
\* plus lines really present in these rows; a blank counterpart panel and a
\* continuation row leave no net change in either counter.
C12_CountersExact ==
    RowsRendered =>
        /\ line_number[Left] =
               emit_in.line_numbers_data[1][Left] + LinesPresent(Left, row_index)
        /\ line_number[Right] =
               emit_in.line_numbers_data[1][Right] + LinesPresent(Right, row_index)

\* wrap_zero_block has returned to paint_zero_lines_side_by_side.
ZeroWrapped == pc \in {"zero_left", "zero_right", "zero_newline", "zero_done"}

\* The smaller of what the two panels leave for the text of a context line.
SmallerAvailableWidth ==
    LET avail(side) ==
            Max(0, emit_in.config.side_by_side_data[side].width
                       - emit_in.line_numbers_data[1][side]
                       - (IF emit_in.config.keep_plus_minus_markers THEN 1 ELSE 0))
    IN  Min(avail(Left), avail(Right))

ZeroTooLong == Len(emit_in.raw_line) > SmallerAvailableWidth + 2

\* Rows of a line wrapped at the width: every row but the last fills the
\* width (one more grapheme for the place of the prefix), the last row does
\* not exceed it unless the row cap stopped the wrapping there. At a width
\* of one column or none wrap_line leaves the line in one row.
WrappedAt(rows, line_, width) ==
    IF width <= 1 THEN rows = <<line_>>
    ELSE /\ Len(rows) >= 2
         /\ \A k \in 1..(Len(rows) - 1) : Len(LineGraphemes(rows[k])) = width + 1
         /\ \/ Len(rows) = wrap_config.max_lines
            \/ CountWithoutNewline(Last(rows)) <= width + 1

GeometryW ==
    IF call_in.decorations_width[1] = "Fixed" THEN call_in.decorations_width[2]
    ELSE call_in.available_terminal_width

\* The declared width is fixed and odd and the fill method is TryAnsiSequence.
FixedOddWithAnsi ==
    /\ call_in.decorations_width[1] = "Fixed"
    /\ call_in.decorations_width[2] % 2 = 1
    /\ call_in.line_fill_method = "TryAnsiSequence"

\* C14: new_sbs gives both panels floor(W / 2); sbs_odd_fix adds one to the
\* right panel and nothing to the left exactly when the declared width is
\* fixed and odd and the fill method is TryAnsiSequence; then left + right =
\* W, and in every other case left = right.
C14_PanelGeometry ==
    /\ pc = "sbs_odd_fix" =>
           /\ call_out.sbs_data[Left].width = GeometryW \div 2
           /\ call_out.sbs_data[Right].width = GeometryW \div 2
    /\ pc = "geometry_done" =>
           /\ call_out.sbs_data[Left].width = GeometryW \div 2
           /\ call_out.sbs_data[Right].width =
                  (GeometryW \div 2) + (IF FixedOddWithAnsi THEN 1 ELSE 0)
           /\ IF FixedOddWithAnsi
              THEN call_out.sbs_data[Left].width + call_out.sbs_data[Right].width = GeometryW
              ELSE call_out.sbs_data[Left].width = call_out.sbs_data[Right].width

\* A fixed odd width with the ANSI fill and an even terminal width: the
\* right panel is the wider.
C14_Witness ==
    /\ pc = "geometry_done"
    /\ call_in.decorations_width = Fixed(7)
    /\ call_in.available_terminal_width = 8
    /\ call_in.line_fill_method = "TryAnsiSequence"
    /\ call_out.sbs_data = MinusPlus([width |-> 3], [width |-> 4])

\* C15: has_long_lines returns for each side a mask with one entry for each
\* line, true exactly for a line of more than width[side] + 2 graphemes,
\* and a flag that is true exactly when some entry of either mask is.
C15_LongLines ==
    pc = "long_lines_done" =>
        /\ \A side \in {Left, Right} :
               /\ Len(call_out.wrapping_lines[side]) = Len(call_in.lines[side])
               /\ \A i \in 1..Len(call_in.lines[side]) :
                      call_out.wrapping_lines[side][i]
                          <=> (Len(call_in.lines[side][i][1]) > call_in.line_width[side] + 2)
        /\ call_out.flag <=>
               \E side \in {Left, Right} :
                   \E i \in 1..Len(call_out.wrapping_lines[side]) :
                       call_out.wrapping_lines[side][i]

\* Two lines a side; on the left one of exactly width + 2 graphemes and one
\* longer, on the right none too long: the flag comes from the left alone.
C15_Witness ==
    /\ pc = "long_lines_done"
    /\ Len(call_in.lines[Left]) = 2
    /\ Len(call_in.lines[Left][1][1]) = call_in.line_width[Left] + 2
    /\ call_out.wrapping_lines = MinusPlus(<<FALSE, TRUE>>, <<FALSE, FALSE>>)
    /\ call_out.flag

\* The input has no grapheme: no segment, or segments of empty text only.
InputTextEmpty == LineGraphemes(line) = <<>>

\* The while loop of wrap_line runs for this width and this row cap.
LoopRuns == line_width > 1 /\ wrap_config.max_lines # 1

\* C16 (as claimed): for every width and every wrap config the result of
\* wrap_line has no row if and only if the input is empty.
C16_EmptyIffEmpty == pc = "done" => (result = <<>> <=> InputTextEmpty)

\* C16 (amended): the result has no row only if the input has no grapheme,
\* and always if the input has no segment; segments of empty text give no
\* row when the loop runs, and one row holding them when it does not
\* (line_width <= 1 or max_lines = 1).
C16_EmptyAmended ==
    pc = "done" =>
        /\ result = <<>> => InputTextEmpty
        /\ line = <<>> => result = <<>>
        /\ (InputTextEmpty /\ line # <<>>) =>
               IF LoopRuns THEN result = <<>> ELSE result = <<line>>

\* Two segments of empty text where the loop does not run: they come back
\* as one row.
C16_Witness ==
    /\ pc = "done"
    /\ InputTextEmpty
    /\ Len(line) = 2
    /\ ~LoopRuns
    /\ result = <<line>>

\* The entries the emitter goes through: those of the alignment, or the
\* rows of the context line.
ZeroRunning == pc \in {"zero_wrap", "zero_left", "zero_right", "zero_newline", "zero_done"}
EmitRunning == pc \in {"emit_left", "emit_right", "emit_newline", "emit_done"}
EntryCount == IF ZeroRunning THEN Len(zero_block.states) ELSE Len(emit_in.alignment)

\* The half-row of a side of the entry `row`, as the emitter at work builds
\* it: for a context row both halves from the diff segments of that row.
HalfRow(panel_side, row) ==
    IF ZeroRunning
    THEN LET state == zero_block.states[row + 1]
             painted == PaintLine(zero_block.diff[row + 1], state, panel_side,
                                  IF emit_in.config.keep_plus_minus_markers
                                  THEN PaintText(emit_in.config.zero_style, <<" ">>)
                                  ELSE <<>>,
                                  emit_in.config)
         IN  PadPanelLineToWidth(painted.line, painted.is_empty, Some(row), zero_block.diff,
                                 state, panel_side,
                                 emit_in.background_color_extends_to_terminal_width,
                                 emit_in.config).line
    ELSE LET line_index == emit_in.alignment[row + 1][IF panel_side = Left THEN 1 ELSE 2]
         IN  PaintPanelMinusOrPlusLine(
                 line_index, emit_in.diff[panel_side],
                 EntryState(emit_in.states, panel_side, line_index), panel_side,
                 emit_in.background_color_extends_to_terminal_width[panel_side],
                 emit_in.config).line

\* The first n rows: left half, right half, newline, entry after entry.
RECURSIVE RowsUpTo(_)
RowsUpTo(n) ==
    IF n = 0 THEN <<>>
    ELSE RowsUpTo(n - 1) \o HalfRow(Left, n - 1) \o HalfRow(Right, n - 1) \o <<<<"", NL>>>>

\* The panels the painter was called for, in the order of the calls.
CalledPanels == [k \in 1..Len(painter_calls) |->
                    <<painter_calls[k].row, painter_calls[k].panel_side>>]

\* The panels of the first n rows, left before right, row after row.
PanelsUpTo(n) == [k \in 1..(2 * n) |-> <<(k - 1) \div 2, IF k % 2 = 1 THEN Left ELSE Right>>]

\* C17: either emitter appends one row for each entry, in order, each row
\* the left half, the right half and one newline; the painter is called for
\* the left panel of a row before its right panel, and for a row before the
\* next; a context row has both halves built from the same segments.
C17_EmissionOrder ==
    /\ pc \in {"emit_left", "zero_left", "emit_done", "zero_done"} =>
           /\ output_buffer = RowsUpTo(row_index)
           /\ CalledPanels = PanelsUpTo(row_index)
    /\ pc \in {"emit_right", "zero_right"} =>
           /\ output_buffer = RowsUpTo(row_index) \o HalfRow(Left, row_index)
           /\ CalledPanels = Append(PanelsUpTo(row_index), <<row_index, Left>>)
    /\ pc \in {"emit_newline", "zero_newline"} =>
           /\ output_buffer = RowsUpTo(row_index) \o HalfRow(Left, row_index)
                                  \o HalfRow(Right, row_index)
           /\ CalledPanels = PanelsUpTo(row_index + 1)
    /\ pc \in {"emit_done", "zero_done"} => row_index = EntryCount

\* Two rows are out whose panels differ; the four painter calls are behind.
C17_Witness ==
    /\ pc \in {"emit_done", "zero_done"}
    /\ row_index = 2
    /\ Len(painter_calls) = 4
    /\ HalfRow(Left, 0) # HalfRow(Right, 0)
    /\ HalfRow(Left, 0) # HalfRow(Left, 1)

\* The state of the lines of a side, and of the further rows of a line.
FirstRowState(side) == IF side = Left THEN "HunkMinus" ELSE "HunkPlus"
FurtherRowState(side) == IF side = Left THEN "HunkMinusWrapped" ELSE "HunkPlusWrapped"

\* The labels the rows of a side are to carry: for each line in turn the
\* state of the line, then the Wrapped state of the side for each further
\* row the line was wrapped into.
ExpectedRowStates(side) ==
    Flatten([i \in 1..Len(block_in.syntax_diff[side]) |->
                <<FirstRowState(side)>> \o Repeat(FurtherRowState(side), RowsOf(side, i - 1) - 1)])

\* C18: wrap_minusplus_block returns for each side one state for each
\* physical row; the first row of every logical line has the state of the
\* line (HunkMinus on the left, HunkPlus on the right), every further row of
\* the line has HunkMinusWrapped on the left and HunkPlusWrapped on the
\* right, and no first row has a Wrapped state.
C18_StateLabelling ==
    pc = "block_done" =>
        \A side \in {Left, Right} :
            /\ Len(new_states[side]) = Len(new_wrapped_diff[side])
            /\ Len(new_states[side]) = Len(new_wrapped_syntax[side])
            /\ new_states[side] = ExpectedRowStates(side)

\* Two lines on the left, the first wrapped into three rows, and a wrapped
\* line on the right.
C18_Witness ==
    /\ pc = "block_done"
    /\ new_states[Left] = <<"HunkMinus", "HunkMinusWrapped", "HunkMinusWrapped", "HunkMinus">>
    /\ "HunkPlusWrapped" \in {new_states[Right][k] : k \in 1..Len(new_states[Right])}

\* The text of each row: how many rows there are and where the text of the
\* line was split.
RowTexts(rows) == [i \in 1..Len(rows) |-> LineGraphemes(rows[i])]

\* The same line text as one segment.
OneSegment(segs) == IF segs = <<>> THEN <<>> ELSE <<<<InputStyles[1], LineGraphemes(segs)>>>>

\* C19: two segmentations of the same line text, wrapped by wrap_line at
\* the same width with the same wrap config, give the same number of rows
\* and the same split positions (here: the segmentation at hand and the
\* text as one segment), so that the syntax rows and the diff rows of a
\* line are equally many.
C19_SegmentationIndependent ==
    pc = "done" =>
        RowTexts(result) =
            RowTexts(wrap_line(wrap_config, OneSegment(line), line_width, fill_style,
                               inline_hint_style).result)

\* The output entries that name a row on both sides.
PairedRows == {k \in 1..Len(new_alignment) : IsPair(new_alignment[k])}

\* The row of a side (counted from 0) is a continuation row.
IsContinuationRow(side, row) == new_states[side][row + 1] \in WrappedStates

\* The place of a row within its logical line: 0 for the first row, k for
\* the k-th continuation row.
RowPosition(side, row) ==
    row - (CHOOSE f \in 0..row :
               /\ ~IsContinuationRow(side, f)
               /\ \A g \in (f + 1)..row : IsContinuationRow(side, g))

\* C20 (as claimed): in the alignment wrap_minusplus_block returns, every
\* entry (Some(m), Some(p)) has m or p, possibly both, index a continuation
\* row.
C20_PairedContinuation ==
    pc = "block_done" =>
        \A k \in PairedRows :
            \/ IsContinuationRow(Left, new_alignment[k][1][1])
            \/ IsContinuationRow(Right, new_alignment[k][2][1])

\* C20 (amended): in every entry (Some(m), Some(p)) of the returned
\* alignment m and p index rows at the same place of their logical lines:
\* both first rows, or both the k-th continuation row; never a first row
\* next to a continuation row.
C20_PairedSamePlace ==
    pc = "block_done" =>
        \A k \in PairedRows :
            RowPosition(Left, new_alignment[k][1][1])
                = RowPosition(Right, new_alignment[k][2][1])

\* A pair of lines wrapped into three and two rows: a paired entry of two
\* first rows, then one of two continuation rows, then the third minus row
\* alone.
C20_Witness ==
    /\ pc = "block_done"
    /\ new_alignment = <<<<Some(0), Some(0)>>, <<Some(1), Some(1)>>, <<Some(2), None>>>>
    /\ ~IsContinuationRow(Left, 0) /\ ~IsContinuationRow(Right, 0)
    /\ IsContinuationRow(Left, 1) /\ IsContinuationRow(Right, 1)

\* The lines a side has consumed before the entry k (counted from 1): the
\* entries before it that name a line of the side.
ConsumedBefore(side, k) ==
    Cardinality({j \in 1..(k - 1) :
                     block_in.alignment[j][IF side = Left THEN 1 ELSE 2] # None})

\* The side of the entry k names a line out of turn.
OutOfTurn(side, k) ==
    LET index == block_in.alignment[k][IF side = Left THEN 1 ELSE 2]
    IN  index # None /\ index[1] # ConsumedBefore(side, k)

\* The assertion the entry k is to fail with, "" if with none.
ExpectedAssertion(k) ==
    LET e == block_in.alignment[k]
    IN  CASE e = <<None, None>> -> "None-None alignment"
          [] e[2] = None /\ OutOfTurn(Left, k) -> "bad alignment index [*l*] (-)"
          [] e[1] = None /\ OutOfTurn(Right, k) -> "bad alignment index (-) [*r*]"
          [] e[1] # None /\ e[2] # None /\ OutOfTurn(Left, k) -> "bad alignment index [*l*] (r)"
          [] e[1] # None /\ e[2] # None /\ OutOfTurn(Right, k) -> "bad alignment index (l) [*r*]"
          [] OTHER -> ""

C21_Step ==
    /\ (pc = "block_loop" /\ pc' = "block_loop") => ExpectedAssertion(entry_index + 1) = ""
    /\ (pc = "block_loop" /\ pc' = "block_panic") =>
           /\ ExpectedAssertion(entry_index + 1) # ""
           /\ BlockPass(BlockState, BlockArgs, block_in.alignment[entry_index + 1]).panic
                  = ExpectedAssertion(entry_index + 1)
    /\ (pc = "block_loop" /\ pc' = "block_done") =>
           \A k \in 1..Len(block_in.alignment) : ExpectedAssertion(k) = ""

\* C21: walking the alignment, wrap_minusplus_block fails with "bad
\* alignment index" and the hint of the side at the first entry that names a
\* line of a side other than the next one of that side, and with "None-None
\* alignment" at an entry of two None; with the indices of each side in turn
\* and masks as long as the lines no assertion fails and the block returns.
C21_AlignmentIndexCheck == [][C21_Step]_vars

\* The second entry names the first plus line again: the walk stopped there.
C21_Witness ==
    /\ pc = "block_panic"
    /\ entry_index = 2
    /\ block_in.alignment = <<<<Some(0), Some(0)>>, <<Some(1), Some(0)>>>>

\* The rows of a side the returned alignment names, in the order of the
\* alignment.
RECURSIVE RowsNamed(_, _)
RowsNamed(entries, side) ==
    IF entries = <<>> THEN <<>>
    ELSE LET index == entries[1][IF side = Left THEN 1 ELSE 2]
         IN  (IF index = None THEN <<>> ELSE <<index[1]>>) \o RowsNamed(Tail(entries), side)

\* C22: in the alignment wrap_minusplus_block returns, the indices of each
\* side read in order are 0, 1, ..., n - 1 where n is the number of rows of
\* the side; the states, the syntax rows and the diff rows of the side are n
\* each; and no entry is without an index. So every row is named once, in
\* order, and every index is within the states and the rows.
C22_NewAlignmentCoverage ==
    pc = "block_done" =>
        /\ \A side \in {Left, Right} :
               /\ RowsNamed(new_alignment, side)
                      = [k \in 1..Len(new_wrapped_diff[side]) |-> k - 1]
               /\ Len(new_states[side]) = Len(new_wrapped_diff[side])
               /\ Len(new_wrapped_syntax[side]) = Len(new_wrapped_diff[side])
        /\ \A k \in 1..Len(new_alignment) : new_alignment[k] # <<None, None>>

\* A minus line alone, wrapped into rows, then a pair whose sides wrap into
\* different numbers of rows.
C22_Witness ==
    /\ pc = "block_done"
    /\ block_in.alignment = <<<<Some(0), None>>, <<Some(1), Some(0)>>>>
    /\ Len(new_wrapped_diff[Left]) >= 5
    /\ Len(new_wrapped_diff[Right]) = 2
    /\ Len(new_alignment) > Len(new_wrapped_diff[Right]) + 2

\* The graphemes of a returned row the width bound counts: all of them but a
\* trailing newline.
RowWidth(row) == CountWithoutNewline(row)

RowsCarryInput == \A i \in 1..Len(result) : InputGraphemesOf(result[i]) # <<>>
CeilDiv(a, b) == (a + b - 1) \div b
RowCountBounded ==
    Len(result) <= CeilDiv(GraphemeCount(LineGraphemes(line)), line_width - 1) + 1

\* C24: without a cap (max_lines = 0) and with line_width >= 2 the wrap loop
\* terminates and wrap_line returns; every returned row carries at least one
\* grapheme of the input text, and the number of rows is at most
\* ceil(G / (line_width - 1)) + 1.
C24_TerminationAndRowBound ==
    /\ (pc = "loop" /\ Uncapped) ~> (pc = "done")
    /\ []((pc = "done" /\ Uncapped) => (RowsCarryInput /\ RowCountBounded))

\* An uncapped call returned three rows or more.
C24_Witness == pc = "done" /\ Uncapped /\ Len(result) >= 3

\* The synthetic segment CurrLine::reset puts at the head of a new row.
MarkerSegment == <<DefaultStyle, LINEPREFIX>>
BeginsWithMarker(row) == row # <<>> /\ row[1] = MarkerSegment

\* C25: each row returned by wrap_line begins with a synthetic one-grapheme
\* "_" segment in the default style.
C25_EveryRowBeginsWithMarker ==
    pc = "done" => \A i \in 1..Len(result) : BeginsWithMarker(result[i])

\* C25, amended: every row after the first begins with the synthetic "_"
\* segment in the default style; the first row begins with the first grapheme
\* of the input line, in its own style; the leading grapheme is counted in
\* the budget: for line_width >= 2 a row that ends with a marker has
\* line_width + 1 graphemes, the leading one included.
C25_MarkerColumn ==
    pc = "done" =>
        /\ \A i \in 2..Len(result) : BeginsWithMarker(result[i])
        /\ (result # <<>> /\ LineGraphemes(result[1]) # <<>>) =>
               StyledGraphemes(result[1])[1] = StyledGraphemes(line)[1]
        /\ line_width >= 2 =>
               \A i \in 1..Len(result) :
                   (result[i] # <<>> /\ IsMarker(Last(result[i]))) =>
                       GraphemeCount(LineGraphemes(result[i])) = MaxLenOf(line_width)

\* A line was wrapped into three rows, the second of them full.
C25_Witness ==
    /\ pc = "done"
    /\ Len(result) = 3
    /\ ~BeginsWithMarker(result[1])
    /\ BeginsWithMarker(result[2])
    /\ IsMarker(Last(result[2]))

\* The segments of the returned rows that hold an inserted symbol, and those
\* that hold padding spaces. The input text holds none of these glyphs.
ReturnedSegments ==
    UNION {{result[i][j] : j \in 1..Len(result[i])} : i \in 1..Len(result)}
IsSymbolSegment(seg) ==
    seg[2] \in {wrap_config.left_symbol, wrap_config.right_symbol, wrap_config.right_prefix_symbol}
IsPaddingSegment(seg) == seg[2] # <<>> /\ \A k \in 1..Len(seg[2]) : seg[2][k] = " "

OvershootsByNewline ==
    /\ pc = "loop"
    /\ LoopCond(WrapState, line_width, wrap_config)
    /\ curr_line.len + GraphemeCount(Last(stack)[2]) = MaxLenOf(line_width) + 1
    /\ EndsWithNewline(Last(stack)[2])

\* The popped segment joined the current row as it is: no row was finished
\* and no continuation marker inserted.
AcceptedAsIs ==
    /\ curr_line'.line_segments = Append(curr_line.line_segments, Last(stack))
    /\ stack' = Front(stack)
    /\ result' = result

\* C27: whenever appending the popped segment would make the current row
\* exactly one grapheme longer than max = line_width + 1 and the segment ends
\* with "\n", the segment is accepted on the current row as it is, without a
\* split and without a continuation marker.
C27_Step == OvershootsByNewline => AcceptedAsIs
C27_FreeNewline == [][C27_Step]_vars

\* pad_panel_line_to_width fills the panel line.
FillStep == pc = "pad_fill" /\ pc' = "paint_done"

\* What the fill appended to the panel line: nothing, spaces up to the panel
\* width, or the escape that fills to the end of the row.
Appended == SubSeq(panel_line', Len(panel_line) + 1, Len(panel_line'))
KeptPanelLine == SubSeq(panel_line', 1, Len(panel_line)) = panel_line
AppendedSpaces(style) ==
    Appended = PaintText(style, Repeat(" ", Max(0, PanelWidth - text_width)))
AppendedAnsi(style) == Appended = <<<<Escape, style>>>>

\* The answer of the external right-fill policy for the row of the panel.
PolicyAnswer ==
    GetShouldRightFill(paint_in.diff_style_sections[paint_in.line_index[1] + 1],
                       paint_in.state,
                       paint_in.background_color_extends_to_terminal_width,
                       paint_in.config)

\* The row of the panel has content and a line index.
RowHasContent == ~panel_line_is_empty /\ paint_in.line_index # None

\* C28: for every left half-row (empty, unpaired blank or with content) and
\* whatever the right-fill policy returns, the left panel is filled with
\* spaces and the ANSI fill-to-end-of-row sequence is never appended to it.
\* For the right panel the policy's answer is used unchanged when the row has
\* content and a line index, and no fill is emitted when the row is empty or
\* unpaired.
C28_Step ==
    FillStep =>
        /\ KeptPanelLine
        /\ paint_in.panel_side = Left =>
              /\ \E style \in {paint_in.config.null_style} \cup BackgroundStyles :
                     AppendedSpaces(style)
              /\ \A k \in 1..Len(panel_line') : IsVisible(panel_line'[k])
        /\ (paint_in.panel_side = Right /\ RowHasContent) =>
              CASE PolicyAnswer[1] = Some("TryAnsiSequence") -> AppendedAnsi(PolicyAnswer[2])
                [] PolicyAnswer[1] = Some("Spaces") -> AppendedSpaces(PolicyAnswer[2])
                [] OTHER -> Appended = <<>>
        /\ (paint_in.panel_side = Right /\ ~RowHasContent) => Appended = <<>>
C28_PanelFill == [][C28_Step]_vars

\* A left half-row with content, narrower than the panel, for which the
\* policy answers with the ANSI sequence, was filled with spaces.
C28_Witness ==
    /\ PanelDone(Left)
    /\ RowHasContent
    /\ PolicyAnswer[1] = Some("TryAnsiSequence")
    /\ text_width < PanelWidth
    /\ MeasureTextWidth(panel_line) = PanelWidth
    /\ Len(StripAnsiCodes(panel_line)) = Len(panel_line)

\* The emitter paints a panel of the row it is at.
EmitsPanel == pc \in {"emit_left", "emit_right"} /\ painter_calls' # painter_calls
PanelSideAt == IF pc = "emit_left" THEN Left ELSE Right
PanelIndexAt == emit_in.alignment[row_index + 1][IF pc = "emit_left" THEN 1 ELSE 2]
PanelStateAt == EntryState(emit_in.states, PanelSideAt, PanelIndexAt)

\* The panel has a row, and the row holds nothing after its marker.
PanelRowEmpty ==
    /\ PanelIndexAt # None
    /\ ~HasContent(emit_in.diff[PanelSideAt][PanelIndexAt[1] + 1])

\* The styles of the empty-line markers the step pushed to the buffer.
EmittedMarkers ==
    {output_buffer'[k][1] : k \in (Len(output_buffer) + 1)..Len(output_buffer')}
        \cap {emit_in.config.minus_empty_line_marker_style,
              emit_in.config.plus_empty_line_marker_style}

\* C29: the empty-line marker is emitted exactly when the half-row is empty,
\* a line index is present and the state is HunkMinus (minus-empty style) or
\* HunkPlus (plus-empty style); a row of wrap_minusplus_block with a
\* continuation state is never empty when the emitters render it, so the
\* branch for any other state is never reached.
C29_Step ==
    EmitsPanel =>
        /\ EmittedMarkers =
               CASE PanelRowEmpty /\ PanelStateAt = "HunkMinus" ->
                        {emit_in.config.minus_empty_line_marker_style}
                 [] PanelRowEmpty /\ PanelStateAt = "HunkPlus" ->
                        {emit_in.config.plus_empty_line_marker_style}
                 [] OTHER -> {}
        /\ PanelStateAt \in {"HunkMinusWrapped", "HunkPlusWrapped"} => ~PanelRowEmpty
        /\ pc' # "emit_panic"
C29_EmptyRowMarker == [][C29_Step]_vars

\* A pass of the wrap loop is about to run.
PassRuns == pc = "loop" /\ LoopCond(WrapState, line_width, wrap_config)

\* The pass splits the popped segment: a row is finished.
SplitStep == PassRuns /\ pc' \in {"loop", "panic"} /\ Len(result') = Len(result) + 1

\* The split index as the code computes it, in the integers.
SplitIndex ==
    LET graphemes == GraphemeCount(Last(stack)[2])
        new_len == curr_line.len + graphemes
    IN  graphemes - (new_len - MaxLenOf(line_width)) - 1

C30_Step ==
    /\ PassRuns => pc' # "panic"
    /\ SplitStep =>
          /\ curr_line.len + GraphemeCount(Last(stack)[2]) >= MaxLenOf(line_width)
          /\ SplitIndex >= 0
          /\ SplitIndex <= GraphemeCount(Last(stack)[2]) - 1
          /\ stack' # <<>>
          /\ Last(stack')[2] = SubSeq(Last(stack)[2], SplitIndex + 1, Len(Last(stack)[2]))
          /\ Last(stack')[2] # <<>>

\* C30: at every pass of the wrap loop the current row is strictly shorter
\* than max = line_width + 1; whenever a segment is split, the index
\* k = len(graphemes) - (new_len - max) - 1 is computed without underflow,
\* 0 <= k <= len(graphemes) - 1, the tail pushed back on the stack is not
\* empty, and no index or slice is out of range.
C30_SplitIndexValid ==
    /\ [](PassRuns => curr_line.len < MaxLenOf(line_width))
    /\ [][C30_Step]_vars

\* Right after a split at index 0: the finished row took nothing of the
\* popped segment, which is back on the stack whole.
C30_Witness ==
    /\ pc = "loop"
    /\ Len(result) >= 2
    /\ curr_line = CurrLineReset
    /\ stack # <<>>
    /\ \E k \in 1..Len(line) : Last(stack) = line[k]
====
